---- MODULE Spec2Model ----
(***************************************************************************)
(* Model of the evaluation-gated teaching pipeline of the adaptive         *)
(* learning backend: the chat controller's teaching cycle                  *)
(* (generateAIResponse / generateInitialExplanation), the preference       *)
(* detector and preference manager (SystemPromptGenerator), and the        *)
(* user_preferences row they share.                                        *)
(***************************************************************************)
EXTENDS Integers, Sequences, FiniteSets, TLC

(***************************************************************************)
(* Values                                                                  *)
(***************************************************************************)
Null == "null"

Formats == {"text", "video", "flashcards"}

\* Object.entries(formatKeywords): insertion order flashcards, video, text.
FormatOrder == <<"flashcards", "video", "text">>

ExplanationStyles == {"concise", "detailed", "balanced"}
LearningStyles == {"visual", "auditory", "reading_writing", "kinesthetic", "mixed"}
Paces == {"slow", "normal", "fast"}
Complexities == {"beginner", "intermediate", "advanced"}

\* JSON booleans of the wants_* preferences; a missing or null key is Null.
Flags == {"true", "false"}

\* Names an LLM-proposed update may set (keys of `updates`).
UpdateFields ==
    {"formatPreference", "explanation_style", "learningStyle", "pace",
     "complexity", "wants_examples", "wants_analogies", "wants_exercises"}

\* Names updateUserPreferences recognises in removePreferences.
RemovableNames == UpdateFields \cup {"output_format"}

FieldValues(f) ==
    CASE f = "formatPreference" -> Formats
      [] f = "explanation_style" -> ExplanationStyles
      [] f = "learningStyle" -> LearningStyles
      [] f = "pace" -> Paces
      [] f = "complexity" -> Complexities
      [] OTHER -> Flags

\* An `updates` object with no key set and nothing to remove.
NoUpdates ==
    [formatPreference |-> Null, explanation_style |-> Null, learningStyle |-> Null,
     pace |-> Null, complexity |-> Null, wants_examples |-> Null,
     wants_analogies |-> Null, wants_exercises |-> Null, removePreferences |-> {}]

(***************************************************************************)
(* Preference snapshots                                                    *)
(***************************************************************************)
\* The preferences object SystemPromptGenerator builds when no row exists
\* (and returns when the store read throws).
DefaultPrefs ==
    [learningStyle |-> "mixed", pace |-> "normal", complexity |-> "intermediate",
     explanationStyle |-> "balanced", formatPreference |-> "text",
     wants_examples |-> "true", wants_analogies |-> "true", wants_exercises |-> "true",
     custom |-> [formatPreference |-> "text", output_format |-> "text"]]

\* customPrefs.formatPreference || customPrefs.output_format || 'text'
FormatOfCustom(customPrefs) ==
    IF customPrefs.formatPreference # Null THEN customPrefs.formatPreference
    ELSE IF customPrefs.output_format # Null THEN customPrefs.output_format
    ELSE "text"

\* The user_preferences row a first read creates: column defaults of the
\* table plus the custom_preferences the service inserts. Of the three
\* interaction counters only preference_changes_count is kept: stuck_count
\* and total_interactions are written by incrementInteractionStats and read
\* by nothing in the pipeline.
DefaultRow ==
    [learning_style |-> "mixed", pace |-> "normal", preferred_difficulty |-> "intermediate",
     explanation_style |-> "balanced", wants_examples |-> "true",
     wants_analogies |-> "true", wants_exercises |-> "true",
     custom_preferences |-> [formatPreference |-> "text", output_format |-> "text"],
     preference_changes_count |-> 0]

\* SystemPromptGenerator.getUserPreferences: row -> prefs object.
PrefsOfRow(row) ==
    [learningStyle |-> row.learning_style, pace |-> row.pace,
     complexity |-> row.preferred_difficulty,
     explanationStyle |-> IF row.explanation_style = Null THEN "balanced"
                          ELSE row.explanation_style,
     formatPreference |-> FormatOfCustom(row.custom_preferences),
     wants_examples |-> row.wants_examples, wants_analogies |-> row.wants_analogies,
     wants_exercises |-> row.wants_exercises,
     custom |-> row.custom_preferences]

(***************************************************************************)
(* updateUserPreferences: the new preferences object                       *)
(***************************************************************************)
IsSet(v) == v # Null

\* Lines 392-423: every key of `updates` that is neither null nor undefined
\* is copied into newPrefs (formatPreference also into both custom keys).
ApplySets(updates, currentPrefs) ==
    [learningStyle |-> IF IsSet(updates.learningStyle) THEN updates.learningStyle
                       ELSE currentPrefs.learningStyle,
     pace |-> IF IsSet(updates.pace) THEN updates.pace ELSE currentPrefs.pace,
     complexity |-> IF IsSet(updates.complexity) THEN updates.complexity
                    ELSE currentPrefs.complexity,
     explanationStyle |-> IF IsSet(updates.explanation_style) THEN updates.explanation_style
                          ELSE currentPrefs.explanationStyle,
     formatPreference |-> IF IsSet(updates.formatPreference) THEN updates.formatPreference
                          ELSE currentPrefs.formatPreference,
     wants_examples |-> IF IsSet(updates.wants_examples) THEN updates.wants_examples
                        ELSE currentPrefs.wants_examples,
     wants_analogies |-> IF IsSet(updates.wants_analogies) THEN updates.wants_analogies
                         ELSE currentPrefs.wants_analogies,
     wants_exercises |-> IF IsSet(updates.wants_exercises) THEN updates.wants_exercises
                         ELSE currentPrefs.wants_exercises,
     custom |-> IF IsSet(updates.formatPreference)
                THEN [formatPreference |-> updates.formatPreference,
                      output_format |-> updates.formatPreference]
                ELSE currentPrefs.custom]

\* Lines 425-442: each removed name resets its field to the default; the
\* format removal resets newPrefs.formatPreference and custom.output_format
\* and leaves custom.formatPreference as it is.
ApplyRemovals(removePreferences, p) ==
    LET fmt == ("formatPreference" \in removePreferences) \/ ("output_format" \in removePreferences)
    IN [learningStyle |-> IF "learningStyle" \in removePreferences THEN "mixed"
                          ELSE p.learningStyle,
        pace |-> IF "pace" \in removePreferences THEN "normal" ELSE p.pace,
        complexity |-> IF "complexity" \in removePreferences THEN "intermediate"
                       ELSE p.complexity,
        explanationStyle |-> IF "explanation_style" \in removePreferences THEN "balanced"
                             ELSE p.explanationStyle,
        formatPreference |-> IF fmt THEN "text" ELSE p.formatPreference,
        wants_examples |-> IF "wants_examples" \in removePreferences THEN "true"
                           ELSE p.wants_examples,
        wants_analogies |-> IF "wants_analogies" \in removePreferences THEN "true"
                            ELSE p.wants_analogies,
        wants_exercises |-> IF "wants_exercises" \in removePreferences THEN "true"
                            ELSE p.wants_exercises,
        custom |-> IF fmt THEN [p.custom EXCEPT !.output_format = "text"] ELSE p.custom]

\* newPrefs of updateUserPreferences: the sets first, the removals after.
NewPrefs(updates, currentPrefs) ==
    ApplyRemovals(updates.removePreferences, ApplySets(updates, currentPrefs))

\* The UPDATE of lines 448-471: every preference column is written from
\* newPrefs, custom_preferences from customPrefs, and the change counter is
\* incremented in the same statement.
RowAfterUpdate(row, newPrefs) ==
    [row EXCEPT
        !.learning_style = newPrefs.learningStyle,
        !.pace = newPrefs.pace,
        !.preferred_difficulty = newPrefs.complexity,
        !.explanation_style = IF newPrefs.explanationStyle = Null THEN "balanced"
                              ELSE newPrefs.explanationStyle,
        !.wants_examples = newPrefs.wants_examples,
        !.wants_analogies = newPrefs.wants_analogies,
        !.wants_exercises = newPrefs.wants_exercises,
        !.custom_preferences = newPrefs.custom,
        !.preference_changes_count = row.preference_changes_count + 1]

(***************************************************************************)
(* analyzeAndUpdatePreferences: format detection                           *)
(***************************************************************************)
\* A user message, as the detector reads it: lowerMessage.includes(...) of
\*   like   - some likePatterns entry occurs in the message
\*   hate   - some hatePatterns entry occurs in the message
\*   kw     - the formats one of whose formatKeywords occurs in the message
\*   legacy - the formats X whose legacy phrase occurs ('hate text' or
\*            'too much text', 'hate flashcard', 'hate video'); each phrase
\*            contains a keyword of its format, so legacy is a subset of kw.
MessageShapes ==
    {m \in [like : BOOLEAN, hate : BOOLEAN, kw : SUBSET Formats, legacy : SUBSET Formats] :
        m.legacy \subseteq m.kw}

\* The formats a message rejects: those named in an explicit "hate X" phrase
\* and, in a message with a hate pattern and no like pattern, every format
\* it names (the detector logs each of them as hated).
Rejected(m) == m.legacy \cup (IF m.hate /\ ~m.like THEN m.kw ELSE {})

\* The substitution table of the negative-preference loop.
Alternatives == [text |-> "flashcards", flashcards |-> "video", video |-> "flashcards"]

SameFormat == [f \in Formats |-> f]

\* What the language model's JSON may hold: failed means invoke or
\* extractJSON threw; hasUpdates = FALSE means the updates key is missing.
LLMFailed ==
    [failed |-> TRUE, preferredFormat |-> Null, preferencesChanged |-> FALSE,
     hasUpdates |-> FALSE, updates |-> NoUpdates]

Analysis(pf, changed, hasUpd, upd) ==
    [failed |-> FALSE, preferredFormat |-> pf, preferencesChanged |-> changed,
     hasUpdates |-> hasUpd, updates |-> upd]

\* One pass over Object.entries(formatKeywords) with a matching pattern:
\* every format with a keyword in the message overwrites the choice, so the
\* last one in FormatOrder decides. (Further matching patterns repeat the
\* same pass with the same outcome.)
RECURSIVE ScanFormats(_, _, _, _)
ScanFormats(i, kw, choice, st) ==
    IF i > Len(FormatOrder) THEN st
    ELSE LET format == FormatOrder[i]
         IN IF format \in kw
            THEN ScanFormats(i + 1, kw, choice,
                    [preferredFormat |-> choice[format],
                     updates |-> [st.updates EXCEPT !.formatPreference = choice[format]],
                     preferencesChanged |-> TRUE,
                     threw |-> st.threw])
            ELSE ScanFormats(i + 1, kw, choice, st)

\* Lines 236-243.
LegacyHateText(m, st) ==
    IF "text" \in m.legacy /\ st.preferredFormat = "text"
    THEN [st EXCEPT !.preferredFormat = "flashcards",
                    !.updates = [st.updates EXCEPT !.formatPreference = "flashcards"],
                    !.preferencesChanged = TRUE]
    ELSE st

\* Lines 244-252: the branch also assigns analysis.updates.formatPreference,
\* which throws when the model's JSON has no updates key.
LegacyHateFlashcards(m, analysis, st) ==
    IF "flashcards" \in m.legacy /\ st.preferredFormat = "flashcards"
    THEN IF ~analysis.hasUpdates
         THEN [st EXCEPT !.threw = TRUE]
         ELSE [st EXCEPT !.preferredFormat = "video",
                         !.updates = [st.updates EXCEPT !.formatPreference = "video"],
                         !.preferencesChanged = TRUE]
    ELSE st

\* Lines 253-260.
LegacyHateVideo(m, st) ==
    IF st.threw THEN st
    ELSE IF "video" \in m.legacy /\ st.preferredFormat = "video"
    THEN [st EXCEPT !.preferredFormat = "flashcards",
                    !.updates = [st.updates EXCEPT !.formatPreference = "flashcards"],
                    !.preferencesChanged = TRUE]
    ELSE st

\* Lines 178-260 for a parsed analysis.
DetectFormat(m, analysis, currentPrefs) ==
    LET st0 == [preferredFormat |->
                    IF analysis.preferredFormat # Null THEN analysis.preferredFormat
                    ELSE currentPrefs.formatPreference,
                updates |-> IF analysis.hasUpdates THEN analysis.updates ELSE NoUpdates,
                preferencesChanged |-> analysis.preferencesChanged,
                threw |-> FALSE]
        st1 == IF m.like THEN ScanFormats(1, m.kw, SameFormat, st0) ELSE st0
        st2 == IF m.hate THEN ScanFormats(1, m.kw, Alternatives, st1) ELSE st1
    IN LegacyHateVideo(m, LegacyHateFlashcards(m, analysis, LegacyHateText(m, st2)))

(***************************************************************************)
(* The chat controller's direct column update                              *)
(***************************************************************************)
Undefined == "undefined"
Absent == "absent"

\* newPreferences of a conversation analysis: the four keys the controller
\* reads; a key the analyzer left out is Undefined.
NoNewPreferences ==
    [explanation_style |-> Undefined, wants_examples |-> Undefined,
     wants_analogies |-> Undefined, pace |-> Undefined]

Truthy(v) == v \notin {Null, Undefined, "false"}

\* chatController lines 520-532: the `updates` object of the direct UPDATE.
\* A string key is copied when truthy, a wants_* key when it is !== null
\* (so an undefined one is copied too).
DirectUpdates(np) ==
    [explanation_style |-> IF Truthy(np.explanation_style) THEN np.explanation_style ELSE Absent,
     wants_examples |-> IF np.wants_examples # Null THEN np.wants_examples ELSE Absent,
     wants_analogies |-> IF np.wants_analogies # Null THEN np.wants_analogies ELSE Absent,
     pace |-> IF Truthy(np.pace) THEN np.pace ELSE Absent]

DirectKeys(u) == {k \in DOMAIN u : u[k] # Absent}

\* A query parameter as the driver sends it: undefined becomes SQL NULL.
SqlValue(v) == IF v = Undefined THEN Null ELSE v

\* chatController lines 535-540: only the named columns are written.
RowAfterDirectUpdate(r, u) ==
    [r EXCEPT
        !.explanation_style = IF u.explanation_style # Absent
                              THEN SqlValue(u.explanation_style) ELSE @,
        !.wants_examples = IF u.wants_examples # Absent THEN SqlValue(u.wants_examples) ELSE @,
        !.wants_analogies = IF u.wants_analogies # Absent THEN SqlValue(u.wants_analogies) ELSE @,
        !.pace = IF u.pace # Absent THEN SqlValue(u.pace) ELSE @]

\* Object.assign(userPreferences, updates) on the controller's copy.
AssignUpdates(up, u) ==
    [up EXCEPT
        !.explanation_style = IF u.explanation_style # Absent THEN u.explanation_style ELSE @,
        !.wants_examples = IF u.wants_examples # Absent THEN u.wants_examples ELSE @,
        !.wants_analogies = IF u.wants_analogies # Absent THEN u.wants_analogies ELSE @,
        !.pace = IF u.pace # Absent THEN u.pace ELSE @]

\* incrementInteractionStats(userId, 'preference_changes_count'):
\* SET field = field + 1.
RowAfterIncrement(r) == [r EXCEPT !.preference_changes_count = @ + 1]

\* The conversation analysis when the analyzer call fails: data?.analysis || {}.
EmptyAnalysis ==
    [isStuck |-> FALSE, hasNewPreference |-> FALSE, needsAdjustment |-> FALSE,
     newPreferences |-> NoNewPreferences]

(***************************************************************************)
(* The workers: what an agent answers to a message                         *)
(***************************************************************************)
\* ResponseEvaluator: this.PASSING_SCORE.
PASSING_SCORE == 70

\* An AgentResponse. createResponse(data, error) sets success: !error; the
\* data of a response is a candidate (data.response, data.responseType), an
\* evaluation (data.evaluation) or nothing. `fallback` marks a candidate or
\* an evaluation the worker built itself after its generator failed.
\* getDefaultRubric: the weights of accuracy, clarity, relevance, pedagogy
\* and alignment (0.30, 0.25, 0.20, 0.15, 0.10), in hundredths.
getDefaultRubric == <<30, 25, 20, 15, 10>>

NoData ==
    [kind |-> "none", responseType |-> Null, fallback |-> FALSE, totalScore |-> 0,
     passed |-> FALSE, rubric |-> <<>>]

\* createResponse(null, error): the error names what the message says.
Failure(error) == [success |-> FALSE, error |-> error, data |-> NoData]

\* createResponse({response, responseType, ...}).
CandidateResponse(responseType, fallback) ==
    [success |-> TRUE, error |-> Null,
     data |-> [NoData EXCEPT !.kind = "candidate", !.responseType = responseType,
                             !.fallback = fallback]]

\* createResponse({evaluation, message}).
EvaluationResponse(totalScore, passed, fallback) ==
    [success |-> TRUE, error |-> Null,
     data |-> [NoData EXCEPT !.kind = "evaluation", !.fallback = fallback,
                             !.totalScore = totalScore, !.passed = passed,
                             !.rubric = getDefaultRubric]]

\* createResponse({message: 'System prompt updated'}).
Acknowledged == [success |-> TRUE, error |-> Null, data |-> NoData]

\* What the generator under a worker does with a prompt: the language model
\* (and Sora) answer ("ok"), answer with text that is not the JSON asked
\* for ("malformed"), or throw ("throws").
Generations == {"ok", "malformed", "throws"}

\* TeacherModel.teach: the model's text is the candidate; a throwing model
\* is answered with createResponse(null, `Error generating response: ...`).
teach(content, gen) ==
    IF gen = "throws" THEN Failure("generation") ELSE CandidateResponse(Null, FALSE)

\* FlashcardGenerator.generateFlashcards: lessonContext.topic is read
\* before the try, so a null lessonContext throws into processMessage's
\* catch; text that is not JSON becomes a single card made of the message
\* and the text; a throwing model is answered with createResponse(null,
\* `Failed to generate flashcards: ...`).
generateFlashcards(content, gen) ==
    IF ~content.lesson THEN Failure("thrown")
    ELSE IF gen = "throws" THEN Failure("generation")
    ELSE CandidateResponse("flashcards", gen = "malformed")

\* VideoGenerator.generateVideoScript: lessonContext.topic is read before
\* the try; a throwing model or a failed Sora generation is answered with
\* the script-based fallback (videoUrl: null, fallback: true); takeaways
\* that are not JSON are replaced by three stock ones.
generateVideoScript(content, gen) ==
    IF ~content.lesson THEN Failure("thrown")
    ELSE CandidateResponse("video", gen = "throws")

\* The text of a candidate as createFallbackEvaluation reads it: the word
\* count (under 20, 50 to 500, or any other), floor(relevanceRatio * 20),
\* and whether it contains 'example', 'for instance' / 'for example', a
\* bullet or a number.
Texts ==
    [isString : {TRUE}, words : {"short", "good", "other"}, relevance : {0, 10, 20},
     example : BOOLEAN, forInstance : BOOLEAN, bullets : BOOLEAN]

\* A teachingResponse that is no string: the video or flashcard object.
ObjectBody ==
    [isString |-> FALSE, words |-> "other", relevance |-> 0, example |-> FALSE,
     forInstance |-> FALSE, bullets |-> FALSE]

Min(a, b) == IF a < b THEN a ELSE b
Max(a, b) == IF a > b THEN a ELSE b

\* createFallbackEvaluation, lines 226-249: the heuristic score.
FallbackScore(body) ==
    LET base == 50
        length == IF body.words = "good" THEN 15
                  ELSE IF body.words = "short" THEN 0 - 20 ELSE 0
        elements == (IF body.example THEN 5 ELSE 0) + (IF body.forInstance THEN 5 ELSE 0)
                    + (IF body.bullets THEN 5 ELSE 0)
    IN Max(0, Min(100, base + length + body.relevance + elements))

\* What the judge model answers: JSON with a totalScore (or none) and its
\* own passed flag, or nothing usable (invoke or extractJSON throws). The
\* JSON may carry a rubric of the judge's own (the weights of its criteria,
\* in hundredths).
Judgement(hasScore, totalScore, passed) ==
    [failed |-> FALSE, hasScore |-> hasScore, totalScore |-> totalScore, passed |-> passed,
     hasRubric |-> FALSE, rubric |-> <<>>]

JudgeFailed ==
    [failed |-> TRUE, hasScore |-> FALSE, totalScore |-> 0, passed |-> FALSE,
     hasRubric |-> FALSE, rubric |-> <<>>]

\* The judge's answer with a rubric in it.
WithRubric(judge, weights) == [judge EXCEPT !.hasRubric = TRUE, !.rubric = weights]

\* Line 193: evaluation.rubric || this.getDefaultRubric().
RubricOf(judge) == IF judge.hasRubric THEN judge.rubric ELSE getDefaultRubric

\* evaluateResponse keeping the judge's own passed flag.
evaluateResponseTrustingJudge(content, judge) ==
    IF ~judge.failed
    THEN [EvaluationResponse(IF judge.hasScore THEN judge.totalScore ELSE 0,
                             judge.passed, FALSE)
             EXCEPT !.data.rubric = RubricOf(judge)]
    ELSE IF content.body.isString
    THEN EvaluationResponse(FallbackScore(content.body),
                            FallbackScore(content.body) >= PASSING_SCORE, TRUE)
    ELSE Failure("thrown")

\* ResponseEvaluator.evaluateResponse. Lines 189-190: totalScore is the
\* judge's (0 when missing or 0) and passed is recomputed from it, the
\* judge's own flag being dropped. Lines 208-219: when the judge fails the
\* fallback scores the text; teachingResponse.split throws on a body that
\* is no string, out of the catch block and into processMessage's catch.
evaluateResponse(content, judge) ==
    IF ~judge.failed
    THEN LET totalScore == IF judge.hasScore THEN judge.totalScore ELSE 0
         IN [EvaluationResponse(totalScore, totalScore >= PASSING_SCORE, FALSE)
                EXCEPT !.data.rubric = RubricOf(judge)]
    ELSE IF content.body.isString
    THEN EvaluationResponse(FallbackScore(content.body),
                            FallbackScore(content.body) >= PASSING_SCORE, TRUE)
    ELSE Failure("thrown")

\* The classes of the agents a registry may hold: the workers of the
\* pipeline, a BaseAgent that does not implement processMessage, and an
\* agent whose receiveMessage raises.
WorkerClasses == {"TeacherModel", "FlashcardGenerator", "VideoGenerator", "ResponseEvaluator"}
AgentClasses == WorkerClasses \cup {"BaseAgent", "Raising"}

\* What happens underneath a worker while it handles one message.
Outcome(gen, judge) == [gen |-> gen, judge |-> judge]

\* handleRequest of each worker: the action it serves, 'Unsupported action'
\* for any other.
handleRequest(class, content, o) ==
    CASE class = "TeacherModel" /\ content.action = "teach" -> teach(content, o.gen)
      [] class = "TeacherModel" /\ content.action = "update_system_prompt" -> Acknowledged
      [] class = "FlashcardGenerator" /\ content.action = "teach" ->
            generateFlashcards(content, o.gen)
      [] class = "VideoGenerator" /\ content.action = "teach" ->
            generateVideoScript(content, o.gen)
      [] class = "ResponseEvaluator" /\ content.action = "evaluate_response" ->
            evaluateResponse(content, o.judge)
      [] OTHER -> Failure("unsupported")

\* processMessage: a request is handled, any other type is unsupported
\* (TeacherModel also takes notifications, of which it knows
\* 'system_prompt_updated'); BaseAgent's own processMessage throws.
\* [response, threw].
processMessage(class, message, content, o) ==
    IF class = "BaseAgent" THEN [response |-> Failure("thrown"), threw |-> TRUE]
    ELSE IF message.type = "request"
    THEN [response |-> handleRequest(class, content, o), threw |-> FALSE]
    ELSE IF class = "TeacherModel" /\ message.type = "notification"
    THEN [response |-> IF content.action = "system_prompt_updated" THEN Acknowledged
                       ELSE Failure("unsupported"),
          threw |-> FALSE]
    ELSE [response |-> Failure("unsupported"), threw |-> FALSE]

\* BaseAgent.receiveMessage: the response of processMessage, or
\* {success: false, error} when it throws. An agent of another making may
\* raise from receiveMessage itself. [response, raised].
receiveMessage(class, message, content, o) ==
    IF class = "Raising" THEN [response |-> Failure("raised"), raised |-> TRUE]
    ELSE [response |-> processMessage(class, message, content, o).response,
          raised |-> FALSE]

(***************************************************************************)
(* The dispatcher: messages, the agents Map, the results of its calls       *)
(***************************************************************************)
\* An agent object: its config.name and its class.
Agent(name, class) == [name |-> name, class |-> class]

\* this.agents.get(to) of a name that is no key.
NoAgent == Agent("none", "none")

\* A message as messageHistory keeps it (content, timestamp and priority
\* are left out of the history of the model).
Message(from, to, type) == [from |-> from, to |-> to, type |-> type]

\* message.content: the action, whether data.lessonContext is an object,
\* and data.teachingResponse.
Content(action, lesson, body) == [action |-> action, lesson |-> lesson, body |-> body]

\* this.agents is a Map: the entries in insertion order.
Has(agents, name) == \E i \in DOMAIN agents : agents[i].name = name

IndexOf(agents, name) == CHOOSE i \in DOMAIN agents : agents[i].name = name

Get(agents, name) == IF Has(agents, name) THEN agents[IndexOf(agents, name)] ELSE NoAgent

\* Map.set: an existing key keeps its place, a new one goes last.
MapSet(agents, agent) ==
    IF Has(agents, agent.name)
    THEN [i \in DOMAIN agents |-> IF agents[i].name = agent.name THEN agent ELSE agents[i]]
    ELSE Append(agents, agent)

\* Map.delete.
MapDelete(agents, name) ==
    LET Keep(a) == a.name # name IN SelectSeq(agents, Keep)

\* The constructor: no agents, no history.
NewCommunication == [agents |-> <<>>, messageHistory |-> <<>>]

\* The agents of the pipeline as initializeAgents registers them (of the
\* eleven it registers, the content workers and the evaluator).
OrchestratorAgents ==
    <<Agent("TeacherModel", "TeacherModel"), Agent("ResponseEvaluator", "ResponseEvaluator"),
      Agent("VideoGenerator", "VideoGenerator"),
      Agent("FlashcardGenerator", "FlashcardGenerator")>>

\* The locals of broadcast: from, content, type, the position of the Map
\* iterator (entries before it) and the responses Map.
NoBroadcast ==
    [active |-> FALSE, from |-> "none", content |-> Content("none", FALSE, ObjectBody),
     pos |-> 0, responses |-> {}]

NoOutcome == Outcome("ok", JudgeFailed)

\* A finished call: the recipient the lookup found, what happened beneath
\* it, the response returned or the error thrown, and for a broadcast the
\* responses Map.
NoReply ==
    [op |-> "none", message |-> Message("none", "none", "none"),
     content |-> Content("none", FALSE, ObjectBody), recipient |-> NoAgent,
     outcome |-> NoOutcome, response |-> Failure("none"), threw |-> FALSE,
     responses |-> {}]

\* sendMessage delivering without its try / catch.
DeliverUncaught(recipientAgent, message, content, o) ==
    LET r == receiveMessage(recipientAgent.class, message, content, o)
    IN [response |-> r.response, threw |-> r.raised]

\* sendMessage lines 68-77: the recipient's response, or {success: false,
\* error} when receiveMessage raises. [response, threw].
Deliver(recipientAgent, message, content, o) ==
    LET r == receiveMessage(recipientAgent.class, message, content, o)
    IN IF r.raised THEN [response |-> Failure("delivery"), threw |-> FALSE]
       ELSE [response |-> r.response, threw |-> FALSE]

\* sendMessage without the check of the lookup: the call of receiveMessage
\* on undefined raises inside the try.
SendUnchecked(cm, message, content, o) ==
    LET recipientAgent == Get(cm.agents, message.to)
    IN [comm |-> [cm EXCEPT !.messageHistory = Append(@, message)],
        response |-> IF recipientAgent = NoAgent THEN Failure("delivery")
                     ELSE Deliver(recipientAgent, message, content, o).response,
        threw |-> FALSE]

\* sendMessage, lines 45-78: [comm, response, threw] after the call. An
\* unknown recipient is answered with `Recipient agent '...' not found`
\* before anything is recorded; otherwise the message is pushed onto
\* messageHistory and delivered.
Send(cm, message, content, o) ==
    LET recipientAgent == Get(cm.agents, message.to)
    IN IF recipientAgent = NoAgent
       THEN [comm |-> cm, response |-> Failure("not_found"), threw |-> FALSE]
       ELSE LET d == Deliver(recipientAgent, message, content, o)
            IN [comm |-> [cm EXCEPT !.messageHistory = Append(@, message)],
                response |-> d.response, threw |-> d.threw]

(***************************************************************************)
(* State                                                                   *)
(***************************************************************************)
\* Concurrent requests of one user (the claims speak of two).
Cycles == {"c1", "c2"}

\* Requests one handler serves, one after the other, in one behaviour.
MaxRuns == 1

VARIABLES
    rowExists,   \* the user has a user_preferences row
    row,         \* that row (meaningful when rowExists)
    cached,      \* SystemPromptGenerator.userPreferences.has(userId)
    cache,       \* SystemPromptGenerator.userPreferences.get(userId)
    cyc,         \* the locals of each request handler in flight
    sink,        \* chat_messages / lesson_evaluations rows inserted by the cycles
    runs,        \* requests started so far
    accepted,    \* history: preference deltas the store has accepted so far
    row0,        \* history: the row as it was when the server process started
    comm,        \* the AgentCommunication object: agents and messageHistory
    bc,          \* the locals of a broadcast call in flight
    reply,       \* what the last finished sendMessage / broadcast call returned
    generating,  \* generatingInitialExplanations, for the lesson and user of the requests
    promise,     \* the generation promise each handler created: none, pending or settled
    timers,      \* pending setTimeout callbacks that delete the Map's entry
    isProcessing, \* BaseAgent.isProcessing of each registered agent
    receiving    \* receiveMessage calls of each agent that have started and not returned

vars ==
    <<rowExists, row, cached, cache, cyc, sink, runs, accepted, row0, comm, bc, reply,
      generating, promise, timers, isProcessing, receiving>>

\* The agents' own state. A delivery that a handler awaits in one step sets
\* the flag and clears it again within the step.
busy == <<isProcessing, receiving>>

NoDetection ==
    [preferredFormat |-> "text", updates |-> NoUpdates, preferencesChanged |-> FALSE,
     threw |-> FALSE]

NoMessage == [like |-> FALSE, hate |-> FALSE, kw |-> {}, legacy |-> {}]

NoFormatAnalysis ==
    [present |-> FALSE, preferredFormat |-> "text", preferencesUpdated |-> FALSE,
     currentPreferences |-> DefaultPrefs]

NoEvaluation == [present |-> FALSE, passed |-> FALSE, totalScore |-> 0, attempt |-> 0]

\* The Map without an entry for the key; with one, `promise` names the
\* handler whose generation promise the entry holds.
NoGeneration == [has |-> FALSE, promise |-> "none"]

\* No teach request sent yet.
NoTeachRequest == [to |-> "none", feedback |-> NoEvaluation]

NoResult ==
    [kind |-> "none", status |-> 0, cause |-> "none", passed |-> FALSE, score |-> 0,
     candidate |-> 0, attemptsUsed |-> 0]

\* The locals of a handler before it runs.
IdleCycle ==
    [pc |-> "idle", handler |-> "chat", hasMessage |-> TRUE,
     userPreferences |-> DefaultRow, analysis |-> EmptyAnalysis,
     msg |-> NoMessage, currentPrefs |-> DefaultPrefs, det |-> NoDetection,
     detected |-> FALSE, newPrefs |-> DefaultPrefs, applied |-> "none",
     formatAnalysis |-> NoFormatAnalysis, countAtSubmit |-> 0, adjusted |-> FALSE,
     formatPreference |-> "text", targetModel |-> "TeacherModel",
     attempts |-> 0, teacherResponse |-> 0, responseType |-> "text",
     evaluation |-> NoEvaluation, log |-> <<>>, saved |-> FALSE, result |-> NoResult,
     sent |-> NoTeachRequest, awaits |-> "none"]

\* Rows a user may have when the server process starts with an empty cache.
InitialRows ==
    {DefaultRow,
     [DefaultRow EXCEPT !.custom_preferences =
                            [formatPreference |-> "video", output_format |-> "video"],
                        !.pace = "fast", !.preference_changes_count = 1],
     [DefaultRow EXCEPT !.custom_preferences =
                            [formatPreference |-> "flashcards", output_format |-> "flashcards"],
                        !.explanation_style = "concise", !.wants_examples = "false",
                        !.preference_changes_count = 1]}

\* The store, the preference cache and the handlers when the server process
\* starts.
InitPipeline ==
    /\ rowExists \in BOOLEAN
    /\ row \in (IF rowExists THEN InitialRows ELSE {DefaultRow})
    /\ cached = FALSE
    /\ cache = DefaultPrefs
    /\ cyc = [c \in Cycles |-> IdleCycle]
    /\ sink = <<>>
    /\ runs = 0
    /\ accepted = 0
    /\ row0 = row
    /\ generating = NoGeneration
    /\ promise = [c \in Cycles |-> "none"]
    /\ timers = 0
    /\ isProcessing = [n \in WorkerClasses |-> FALSE]
    /\ receiving = [n \in WorkerClasses |-> 0]

\* The server after its start: the orchestrator has registered its agents.
Init ==
    /\ InitPipeline
    /\ comm = [NewCommunication EXCEPT !.agents = OrchestratorAgents]
    /\ bc = NoBroadcast
    /\ reply = NoReply

Set(c, f, v) == [cyc EXCEPT ![c][f] = v]

\* An error response: next(error) or an explicit error status. The cause
\* names what failed: "validation" (the request), "store" (a query of the
\* preferences, the lesson or the history), "worker" (the content worker),
\* "sink" (the INSERT of the answer or of its evaluation).
ErrorResult(status, cause) ==
    [NoResult EXCEPT !.kind = "error", !.status = status, !.cause = cause]

Fail(c, status, cause) ==
    cyc' = [cyc EXCEPT ![c].pc = "done", ![c].result = ErrorResult(status, cause)]

(***************************************************************************)
(* Request entry and Init: the service's getUserPreferences                *)
(***************************************************************************)
\* A request arrives (at most `limit` of them in a behaviour).
\* generateAIResponse answers 400 for an empty message before touching
\* anything and reads the preferences first; generateInitialExplanation
\* takes an optional message and starts with its checks of the lesson.
\* generateInitialExplanation, lines 103-114, looks the key up in
\* generatingInitialExplanations first: with an entry it awaits the promise
\* stored there, without one it goes on to its query of the lesson's
\* messages.
Arrive(c, limit, handlers, hasMsgs) ==
    /\ cyc[c].pc = "idle"
    /\ runs < limit
    /\ runs' = runs + 1
    /\ \E h \in handlers, hasMsg \in hasMsgs :
        cyc' = [cyc EXCEPT ![c] =
                  IF h = "chat" /\ ~hasMsg
                  THEN [IdleCycle EXCEPT !.pc = "done", !.handler = h, !.hasMessage = FALSE,
                                         !.result = ErrorResult(400, "validation")]
                  ELSE IF h = "chat"
                  THEN [IdleCycle EXCEPT !.pc = "init", !.handler = h, !.hasMessage = hasMsg]
                  ELSE IF generating.has
                  THEN [IdleCycle EXCEPT !.pc = "join", !.handler = h, !.hasMessage = hasMsg,
                                         !.awaits = generating.promise]
                  ELSE [IdleCycle EXCEPT !.pc = "context", !.handler = h,
                                         !.hasMessage = hasMsg]]
    /\ UNCHANGED <<rowExists, row, cached, cache, sink, accepted, row0, comm, bc, reply,
                   generating, promise, timers, busy>>

\* A request of either handler, with a message or without.
Request(c, limit) == Arrive(c, limit, {"chat", "initial"}, BOOLEAN)

\* What follows the service's getUserPreferences in each handler.
AfterInit(c) ==
    IF cyc[c].handler = "chat" THEN "context"
    ELSE IF cyc[c].hasMessage THEN "detect_get" ELSE "prompt"

\* The read swallowing its error and returning the default row, as the
\* prompt generator's own getUserPreferences does.
InitReadReturnsDefaults(c) ==
    /\ cyc[c].pc = "init"
    /\ cyc' = [cyc EXCEPT ![c].pc = AfterInit(c), ![c].userPreferences = DefaultRow]
    /\ UNCHANGED <<rowExists, row, cached, cache, sink, runs, accepted, row0, comm, bc, reply,
                   generating, promise, timers, busy>>

\* The read throws: the handler's catch passes the error on.
InitReadFails(c) ==
    /\ cyc[c].pc = "init"
    /\ Fail(c, 500, "store")
    /\ UNCHANGED <<rowExists, row, cached, cache, sink, runs, accepted, row0, comm, bc, reply,
                   generating, promise, timers, busy>>

\* SELECT * finds the row, or finds none and goes on to INSERT one.
InitSelect(c) ==
    /\ cyc[c].pc = "init"
    /\ cyc' = [cyc EXCEPT ![c].pc = IF rowExists THEN AfterInit(c) ELSE "init_insert",
                          ![c].userPreferences = row]
    /\ UNCHANGED <<rowExists, row, cached, cache, sink, runs, accepted, row0, comm, bc, reply,
                   generating, promise, timers, busy>>

\* INSERT ... RETURNING *: a row another request inserted meanwhile violates
\* UNIQUE(user_id) and the read throws.
InitInsert(c) ==
    /\ cyc[c].pc = "init_insert"
    /\ IF rowExists
       THEN /\ Fail(c, 500, "store")
            /\ UNCHANGED <<rowExists, row>>
       ELSE /\ rowExists' = TRUE
            /\ row' = DefaultRow
            /\ cyc' = [cyc EXCEPT ![c].pc = AfterInit(c), ![c].userPreferences = DefaultRow]
    /\ UNCHANGED <<cached, cache, sink, runs, accepted, row0, comm, bc, reply,
                   generating, promise, timers, busy>>

\* AI messages of the lesson in chat_messages.
AiMessages == Len(sink)

\* generateAIResponse: the lesson and history queries (after the increment
\* of total_interactions, which the row of the model does not hold).
\* generateInitialExplanation: the existing-messages check (400 when the
\* lesson has an AI message) and the lesson query, before the preferences
\* are read. A failing query throws into the handler's catch.
\* In generateInitialExplanation the continuation of the messages query
\* creates the generation promise, whose body runs up to its lesson query,
\* and stores it under the key (line 410), all in one turn of the event
\* loop; a lesson query that fails then rejects the promise.
LoadContext(c) ==
    /\ cyc[c].pc = "context"
    /\ IF cyc[c].handler = "chat"
       THEN /\ \E queriesOk \in BOOLEAN :
                  IF queriesOk THEN cyc' = Set(c, "pc", "analyze")
                  ELSE Fail(c, 500, "store")
            /\ UNCHANGED <<generating, promise>>
       ELSE \/ /\ Fail(c, 500, "store")
               /\ UNCHANGED <<generating, promise>>
            \/ /\ AiMessages > 0
               /\ Fail(c, 400, "validation")
               /\ UNCHANGED <<generating, promise>>
            \/ /\ AiMessages = 0
               /\ generating' = [has |-> TRUE, promise |-> c]
               /\ promise' = [promise EXCEPT ![c] = "pending"]
               /\ \/ cyc' = Set(c, "pc", "init")
                  \/ Fail(c, 500, "store")
    /\ UNCHANGED <<rowExists, row, cached, cache, sink, runs, accepted, row0, comm, bc, reply,
                   timers, busy>>

(***************************************************************************)
(* Conversation analysis and the controller's direct update                *)
(***************************************************************************)
\* analyze_conversation: the analysis the ConversationAnalyzer returns (the
\* model's or its fallback's), or {} when the call fails; then
\* incrementInteractionStats(userId, 'preference_changes_count') when the
\* analysis reports a new preference (a failing UPDATE is swallowed).
AnalyzeConversation(c, analyses) ==
    /\ cyc[c].pc = "analyze"
    /\ \E a \in analyses \cup {EmptyAnalysis}, statsOk \in BOOLEAN :
        /\ cyc' = [cyc EXCEPT ![c].analysis = a,
                              ![c].pc = IF a.needsAdjustment THEN "adjust" ELSE "detect_get"]
        /\ row' = IF a.hasNewPreference /\ statsOk /\ rowExists
                  THEN RowAfterIncrement(row) ELSE row
    /\ UNCHANGED <<rowExists, cached, cache, sink, runs, accepted, row0, comm, bc, reply,
                   generating, promise, timers, busy>>

\* The keys the controller writes for an analysis.
AdjustUpdates(a) ==
    IF a.hasNewPreference THEN DirectUpdates(a.newPreferences)
    ELSE DirectUpdates([explanation_style |-> Null, wants_examples |-> Null,
                        wants_analogies |-> Null, pace |-> Null])

\* chatController lines 516-543: the UPDATE of the named columns and
\* Object.assign on the local copy; a failing UPDATE throws.
Adjust(c) ==
    /\ cyc[c].pc = "adjust"
    /\ LET u == AdjustUpdates(cyc[c].analysis)
       IN IF DirectKeys(u) = {}
          THEN /\ cyc' = Set(c, "pc", "prompt")
               /\ UNCHANGED <<row, accepted>>
          ELSE \/ /\ row' = IF rowExists THEN RowAfterDirectUpdate(row, u) ELSE row
                  /\ accepted' = IF rowExists THEN accepted + 1 ELSE accepted
                  /\ cyc' = [cyc EXCEPT ![c].pc = "prompt",
                                        ![c].userPreferences = AssignUpdates(@, u),
                                        ![c].adjusted = rowExists]
               \/ /\ Fail(c, 500, "store")
                  /\ UNCHANGED <<row, accepted>>
    /\ UNCHANGED <<rowExists, cached, cache, sink, runs, row0, comm, bc, reply,
                   generating, promise, timers, busy>>

(***************************************************************************)
(* SystemPromptGenerator: preference cache, detection, update              *)
(***************************************************************************)
\* getUserPreferences, lines 300-384: [prefs, cached, cache, rowExists, row]
\* after the call. A cached entry is returned as it is; otherwise the row is
\* loaded and cached, a missing row is inserted with the defaults, and a
\* failing query returns the defaults without caching them.
SpgGet(queryOk) ==
    IF cached
    THEN [prefs |-> cache, cached |-> TRUE, cache |-> cache,
          rowExists |-> rowExists, row |-> row]
    ELSE IF ~queryOk
    THEN [prefs |-> DefaultPrefs, cached |-> FALSE, cache |-> cache,
          rowExists |-> rowExists, row |-> row]
    ELSE IF rowExists
    THEN [prefs |-> PrefsOfRow(row), cached |-> TRUE, cache |-> PrefsOfRow(row),
          rowExists |-> TRUE, row |-> row]
    ELSE [prefs |-> DefaultPrefs, cached |-> TRUE, cache |-> DefaultPrefs,
          rowExists |-> TRUE, row |-> DefaultRow]

\* modelRouting[formatPreference] || 'TeacherModel' (the same table in
\* ConversationAnalyzer.routeToAppropriateTeacher and in
\* generateInitialExplanation).
ModelRouting(format) ==
    CASE format = "text" -> "TeacherModel"
      [] format = "video" -> "VideoGenerator"
      [] format = "flashcards" -> "FlashcardGenerator"
      [] OTHER -> "TeacherModel"

\* generateInitialExplanation lines 161-187: the stored format, replaced by
\* the detector's when a message was analysed.
InitialFormat(c) ==
    IF cyc[c].formatAnalysis.present THEN cyc[c].formatAnalysis.preferredFormat
    ELSE FormatOfCustom(cyc[c].userPreferences.custom_preferences)

\* generate_personalized_prompt: generateSystemPrompt reads the preferences
\* through the cache; the chat handler then inserts the prompt into
\* system_prompt_history, and a failing INSERT throws.
Prompt(c) ==
    /\ cyc[c].pc = "prompt"
    /\ \E queryOk \in BOOLEAN, insertOk \in BOOLEAN :
        LET g == SpgGet(queryOk)
        IN /\ cached' = g.cached
           /\ cache' = g.cache
           /\ rowExists' = g.rowExists
           /\ row' = g.row
           /\ IF cyc[c].handler = "initial"
              THEN cyc' = [cyc EXCEPT ![c].pc = "teach",
                              ![c].formatPreference = InitialFormat(c),
                              ![c].responseType = InitialFormat(c),
                              ![c].targetModel = ModelRouting(InitialFormat(c))]
              ELSE IF insertOk THEN cyc' = Set(c, "pc", "detect_get")
              ELSE Fail(c, 500, "store")
    /\ UNCHANGED <<sink, runs, accepted, row0, comm, bc, reply, generating, promise, timers, busy>>

\* analyze_preferences, line 89: currentPrefs = await getUserPreferences.
DetectGet(c) ==
    /\ cyc[c].pc = "detect_get"
    /\ \E queryOk \in BOOLEAN :
        LET g == SpgGet(queryOk)
        IN /\ cached' = g.cached
           /\ cache' = g.cache
           /\ rowExists' = g.rowExists
           /\ row' = g.row
           /\ cyc' = [cyc EXCEPT ![c].pc = "detect_llm", ![c].currentPrefs = g.prefs]
    /\ UNCHANGED <<sink, runs, accepted, row0, comm, bc, reply, generating, promise, timers, busy>>

\* The formatAnalysis of a response.
FormatAnalysis(pf, updated, prefs) ==
    [present |-> TRUE, preferredFormat |-> pf, preferencesUpdated |-> updated,
     currentPreferences |-> prefs]

\* What the handler does with the analyze_preferences response: the chat
\* handler routes next, the initial handler requests the prompt.
AfterDetect(c) == IF cyc[c].handler = "chat" THEN "route" ELSE "prompt"

\* Lines 166-293: the model's analysis, the keyword detection, and either
\* the response or the call of updateUserPreferences (countAtSubmit notes
\* the stored change counter at the call). A failing model call or a throw
\* inside the detection answers with the stored format.
DetectLLM(c, messages, analyses) ==
    /\ cyc[c].pc = "detect_llm"
    /\ \E m \in messages, a \in analyses \cup {LLMFailed} :
        LET d == DetectFormat(m, a, cyc[c].currentPrefs)
        IN IF a.failed \/ d.threw
           THEN cyc' = [cyc EXCEPT ![c].msg = m, ![c].detected = TRUE,
                           ![c].det = [d EXCEPT !.threw = TRUE],
                           ![c].formatAnalysis =
                               FormatAnalysis(cyc[c].currentPrefs.formatPreference, FALSE,
                                              cyc[c].currentPrefs),
                           ![c].pc = AfterDetect(c)]
           ELSE IF d.preferencesChanged
           THEN cyc' = [cyc EXCEPT ![c].msg = m, ![c].detected = TRUE, ![c].det = d,
                           ![c].newPrefs = NewPrefs(d.updates, cyc[c].currentPrefs),
                           ![c].countAtSubmit = row.preference_changes_count,
                           ![c].pc = "update_db"]
           ELSE cyc' = [cyc EXCEPT ![c].msg = m, ![c].detected = TRUE, ![c].det = d,
                           ![c].formatAnalysis =
                               FormatAnalysis(d.preferredFormat, FALSE, cyc[c].currentPrefs),
                           ![c].pc = AfterDetect(c)]
    /\ UNCHANGED <<rowExists, row, cached, cache, sink, runs, accepted, row0, comm, bc, reply,
                   generating, promise, timers, busy>>

\* updateUserPreferences writing the row in two statements, the columns
\* first and custom_preferences with the counter after, other requests'
\* statements in between.
UpdateDbInTwoStatements(c) ==
    /\ cyc[c].pc = "update_db"
    /\ IF cyc[c].applied = "none"
       THEN /\ row' = IF rowExists
                      THEN [RowAfterUpdate(row, cyc[c].newPrefs) EXCEPT
                               !.custom_preferences = row.custom_preferences,
                               !.preference_changes_count = row.preference_changes_count]
                      ELSE row
            /\ accepted' = accepted
            /\ cyc' = Set(c, "applied", "columns")
       ELSE /\ row' = IF rowExists
                      THEN [row EXCEPT !.custom_preferences = cyc[c].newPrefs.custom,
                                       !.preference_changes_count = @ + 1]
                      ELSE row
            /\ accepted' = IF rowExists THEN accepted + 1 ELSE accepted
            /\ cyc' = [cyc EXCEPT ![c].pc = "update_done",
                                  ![c].applied = IF rowExists THEN "ok" ELSE "no_row"]
    /\ UNCHANGED <<rowExists, cached, cache, sink, runs, row0, comm, bc, reply,
                   generating, promise, timers, busy>>

\* The UPDATE of updateUserPreferences reaches the database: the whole row
\* is overwritten from newPrefs and the counter incremented (a user without
\* a row matches WHERE user_id = $9 nowhere, and nothing is written).
UpdateDb(c) ==
    /\ cyc[c].pc = "update_db"
    /\ row' = IF rowExists THEN RowAfterUpdate(row, cyc[c].newPrefs) ELSE row
    /\ accepted' = IF rowExists THEN accepted + 1 ELSE accepted
    /\ cyc' = [cyc EXCEPT ![c].pc = "update_done",
                          ![c].applied = IF rowExists THEN "ok" ELSE "no_row"]
    /\ UNCHANGED <<rowExists, cached, cache, sink, runs, row0, comm, bc, reply,
                   generating, promise, timers, busy>>

\* The UPDATE failing after its preference columns were written and before
\* custom_preferences and the counter were.
UpdateDbFailsHalfway(c) ==
    /\ cyc[c].pc = "update_db"
    /\ row' = IF rowExists
              THEN [RowAfterUpdate(row, cyc[c].newPrefs) EXCEPT
                       !.custom_preferences = row.custom_preferences,
                       !.preference_changes_count = row.preference_changes_count]
              ELSE row
    /\ cyc' = [cyc EXCEPT ![c].pc = AfterDetect(c), ![c].applied = "failed",
                          ![c].formatAnalysis =
                              FormatAnalysis(cyc[c].det.preferredFormat, TRUE,
                                             cyc[c].currentPrefs)]
    /\ UNCHANGED <<rowExists, cached, cache, sink, runs, accepted, row0, comm, bc, reply,
                   generating, promise, timers, busy>>

\* The UPDATE fails: the catch of updateUserPreferences returns currentPrefs
\* and the response still reports preferencesUpdated.
UpdateDbFails(c) ==
    /\ cyc[c].pc = "update_db"
    /\ cyc' = [cyc EXCEPT ![c].pc = AfterDetect(c), ![c].applied = "failed",
                          ![c].formatAnalysis =
                              FormatAnalysis(cyc[c].det.preferredFormat, TRUE,
                                             cyc[c].currentPrefs)]
    /\ UNCHANGED <<rowExists, row, cached, cache, sink, runs, accepted, row0, comm, bc, reply,
                   generating, promise, timers, busy>>

\* The continuation after the UPDATE: the cache takes newPrefs and the
\* response carries them.
UpdateDone(c) ==
    /\ cyc[c].pc = "update_done"
    /\ cached' = TRUE
    /\ cache' = cyc[c].newPrefs
    /\ cyc' = [cyc EXCEPT ![c].pc = AfterDetect(c),
                          ![c].formatAnalysis =
                              FormatAnalysis(cyc[c].det.preferredFormat, TRUE,
                                             cyc[c].newPrefs)]
    /\ UNCHANGED <<rowExists, row, sink, runs, accepted, row0, comm, bc, reply,
                   generating, promise, timers, busy>>

(***************************************************************************)
(* Routing and the generate / evaluate loop                                *)
(***************************************************************************)
maxAttempts == 3

\* The controller's substitute when the evaluator call fails.
EvaluationFailed(n) == [present |-> TRUE, passed |-> FALSE, totalScore |-> 0, attempt |-> n]

\* evaluation.passed || evaluation.totalScore >= 70
Accepted(e) == e.passed \/ e.totalScore >= 70

\* generateAIResponse lines 593-621: the format of the analyze_preferences
\* response and the target model of route_to_teacher (TeacherModel when the
\* routing call fails).
Route(c) ==
    /\ cyc[c].pc = "route"
    /\ \E routingOk \in BOOLEAN :
        LET fp == IF cyc[c].formatAnalysis.present
                  THEN cyc[c].formatAnalysis.preferredFormat ELSE "text"
        IN cyc' = [cyc EXCEPT ![c].pc = "teach", ![c].formatPreference = fp,
                              ![c].responseType = fp,
                              ![c].targetModel = IF routingOk THEN ModelRouting(fp)
                                                 ELSE "TeacherModel"]
    /\ UNCHANGED <<rowExists, row, cached, cache, sink, runs, accepted, row0, comm, bc, reply,
                   generating, promise, timers, busy>>

\* The responseType a content worker reports (TeacherModel reports none).
ReportedType(targetModel) ==
    CASE targetModel = "VideoGenerator" -> "video"
      [] targetModel = "FlashcardGenerator" -> "flashcards"
      [] OTHER -> Null

\* A teach request that picks the default worker again on a retry.
TeachRequestReselecting(c) ==
    [to |-> IF cyc[c].attempts = 0 THEN cyc[c].targetModel ELSE "TeacherModel",
     feedback |-> IF cyc[c].attempts = 0 THEN NoEvaluation ELSE cyc[c].evaluation]

\* A teach request that repeats the first message on a retry.
TeachRequestWithoutFeedback(c) ==
    [to |-> cyc[c].targetModel, feedback |-> NoEvaluation]

\* The teach request of the pass that starts: sent to targetModel, its
\* userMessage the plain message on the first attempt and afterwards the
\* message with the score, the feedback and the improvements of
\* `evaluation`, the last evaluation the loop assigned (none yet when every
\* earlier teach call failed: 'Score: 0/100', 'No feedback').
TeachRequest(c) ==
    [to |-> cyc[c].targetModel,
     feedback |-> IF cyc[c].attempts = 0 THEN NoEvaluation ELSE cyc[c].evaluation]

\* One pass of `while (attempts < maxAttempts)` up to the teach call: the
\* attempt is counted, the content worker answers or fails. A failure on the
\* last attempt ends the request with an error (status 500 in the chat
\* handler, a throw in the initial one); an earlier failure continues.
Teach(c) ==
    /\ cyc[c].pc = "teach"
    /\ cyc[c].attempts < maxAttempts
    /\ LET n == cyc[c].attempts + 1
       IN \/ cyc' = [cyc EXCEPT ![c].attempts = n, ![c].teacherResponse = n,
                        ![c].sent = TeachRequest(c),
                        ![c].responseType =
                            IF ReportedType(cyc[c].targetModel) # Null
                            THEN ReportedType(cyc[c].targetModel)
                            ELSE IF cyc[c].handler = "chat" THEN cyc[c].formatPreference
                            ELSE @,
                        ![c].pc = "evaluate"]
          \/ cyc' = [cyc EXCEPT ![c].attempts = n,
                        ![c].sent = TeachRequest(c),
                        ![c].log = Append(@, "teach_failed"),
                        ![c].pc = IF n = maxAttempts THEN "done" ELSE "teach",
                        ![c].result = IF n = maxAttempts THEN ErrorResult(500, "worker")
                                      ELSE @]
    /\ UNCHANGED <<rowExists, row, cached, cache, sink, runs, accepted, row0, comm, bc, reply,
                   generating, promise, timers, busy>>

\* The teach call reaches generateVideoScript, which starts a Sora job and
\* polls it every two seconds `while (video.status === 'in_progress' ||
\* video.status === 'queued')`: the handler awaits sendMessage, which awaits
\* the worker, with no timeout on either await.
StartPolling(c) ==
    /\ cyc[c].pc = "teach"
    /\ cyc[c].attempts < maxAttempts
    /\ cyc[c].targetModel = "VideoGenerator"
    /\ cyc' = [cyc EXCEPT ![c].attempts = @ + 1, ![c].sent = TeachRequest(c),
                          ![c].pc = "polling"]
    /\ UNCHANGED <<rowExists, row, cached, cache, sink, runs, accepted, row0, comm, bc, reply,
                   generating, promise, timers, busy>>

\* The job leaves the queue and ends (completed, or failed and answered
\* with the fallback): the worker's response arrives. A poll that finds the
\* job still queued or in progress changes nothing.
PollCompletes(c) ==
    /\ cyc[c].pc = "polling"
    /\ cyc' = [cyc EXCEPT ![c].teacherResponse = cyc[c].attempts,
                          ![c].responseType = "video",
                          ![c].pc = "evaluate"]
    /\ UNCHANGED <<rowExists, row, cached, cache, sink, runs, accepted, row0, comm, bc, reply,
                   generating, promise, timers, busy>>

\* The loop without its break on an accepted evaluation.
AfterEvaluationNoBreak(c, e) ==
    IF cyc[c].attempts < maxAttempts THEN "teach" ELSE "after_loop"

\* The loop after an evaluation: break when accepted, another pass while
\* attempts < maxAttempts, otherwise the loop ends.
AfterEvaluation(c, e) ==
    IF Accepted(e) THEN "after_loop"
    ELSE IF cyc[c].attempts < maxAttempts THEN "teach"
    ELSE "after_loop"

\* data.teachingResponse of the evaluate_response request: the chat handler
\* sends a string (JSON.stringify of a body that is none), the initial
\* handler the body as the worker returned it, an object for a video or
\* flashcards.
EvaluatedBody(c, text) ==
    IF cyc[c].handler = "chat" \/ ReportedType(cyc[c].targetModel) = Null THEN text
    ELSE ObjectBody

\* Lines 704-706 (301-303): the evaluation of a successful response, or the
\* controller's substitute.
OrchestratorEvaluation(response, n) ==
    IF response.success
    THEN [present |-> TRUE, passed |-> response.data.passed,
          totalScore |-> response.data.totalScore, attempt |-> n]
    ELSE EvaluationFailed(n)

\* evaluate_response: the request is sent to ResponseEvaluator, which
\* answers with the judge's evaluation or its fallback's, or fails; the
\* loop goes on from the evaluation the controller keeps.
Evaluate(c, judges, texts) ==
    /\ cyc[c].pc = "evaluate"
    /\ \E judge \in judges, text \in texts :
        LET content == Content("evaluate_response", TRUE, EvaluatedBody(c, text))
            message == Message("ChatController", "ResponseEvaluator", "request")
            evaluationResponse == Send(comm, message, content, Outcome("ok", judge)).response
            e == OrchestratorEvaluation(evaluationResponse, cyc[c].attempts)
        IN cyc' = [cyc EXCEPT ![c].evaluation = e,
                              ![c].log = Append(@, IF Accepted(e) THEN "passed" ELSE "failed"),
                              ![c].pc = AfterEvaluation(c, e)]
    /\ UNCHANGED <<rowExists, row, cached, cache, sink, runs, accepted, row0, comm, bc, reply,
                   generating, promise, timers, busy>>

\* The response body of a finished cycle.
TeachingResult(c, passed, used) ==
    [kind |-> "result", status |-> 200, cause |-> "none", passed |-> passed,
     score |-> cyc[c].evaluation.totalScore, candidate |-> cyc[c].teacherResponse,
     attemptsUsed |-> used]

\* After the loop. generateAIResponse answers a failed evaluation at once,
\* with attemptsUsed: maxAttempts, and goes on to save an accepted one;
\* generateInitialExplanation goes on to its double check either way.
AfterLoop(c) ==
    /\ cyc[c].pc = "after_loop"
    /\ IF cyc[c].handler = "chat"
       THEN IF ~Accepted(cyc[c].evaluation)
            THEN cyc' = [cyc EXCEPT ![c].pc = "done",
                                    ![c].result = TeachingResult(c, FALSE, maxAttempts)]
            ELSE cyc' = Set(c, "pc", "save")
       ELSE cyc' = Set(c, "pc", "double_check")
    /\ UNCHANGED <<rowExists, row, cached, cache, sink, runs, accepted, row0, comm, bc, reply,
                   generating, promise, timers, busy>>

\* generateInitialExplanation lines 324-338: a lesson that got an AI message
\* meanwhile answers 409 and saves nothing.
DoubleCheck(c) ==
    /\ cyc[c].pc = "double_check"
    /\ \/ IF AiMessages > 0
          THEN Fail(c, 409, "validation")
          ELSE cyc' = Set(c, "pc", "save")
       \/ Fail(c, 500, "store")
    /\ UNCHANGED <<rowExists, row, cached, cache, sink, runs, accepted, row0, comm, bc, reply,
                   generating, promise, timers, busy>>

\* A chat_messages row with the evaluation saved beside it (or not).
Saved(c, withEvaluation) ==
    [cycle |-> c, candidate |-> cyc[c].teacherResponse,
     evaluation |-> IF withEvaluation THEN cyc[c].evaluation ELSE NoEvaluation]

\* The awaited INSERT into chat_messages, the topic query and the INSERT
\* into lesson_evaluations, then the response. A failing statement throws
\* into the handler's catch: before anything is stored, or after the message
\* is stored and before its evaluation is.
Save(c) ==
    /\ cyc[c].pc = "save"
    /\ \/ /\ sink' = Append(sink, Saved(c, TRUE))
          /\ cyc' = [cyc EXCEPT ![c].pc = "done", ![c].saved = TRUE,
                        ![c].result =
                            IF cyc[c].handler = "chat"
                            THEN TeachingResult(c, TRUE, cyc[c].attempts)
                            ELSE TeachingResult(c, cyc[c].evaluation.passed, 0)]
       \/ /\ sink' = sink
          /\ Fail(c, 500, "sink")
       \/ /\ sink' = Append(sink, Saved(c, FALSE))
          /\ Fail(c, 500, "sink")
    /\ UNCHANGED <<rowExists, row, cached, cache, runs, accepted, row0, comm, bc, reply,
                   generating, promise, timers, busy>>

\* Lines 107-114: the promise a duplicate request awaits has settled, and
\* the request answers with the generation's result, or with 500
\* 'Generation in progress failed'.
Join(c) ==
    /\ cyc[c].pc = "join"
    /\ promise[cyc[c].awaits] \in {"fulfilled", "rejected"}
    /\ cyc' = [cyc EXCEPT ![c].pc = "done",
                          ![c].result =
                              IF promise[cyc[c].awaits] = "fulfilled"
                              THEN [NoResult EXCEPT !.kind = "result", !.status = 200,
                                                    !.cause = "joined"]
                              ELSE ErrorResult(500, "joined")]
    /\ UNCHANGED <<rowExists, row, cached, cache, sink, runs, accepted, row0, comm, bc, reply,
                   generating, promise, timers, busy>>

\* The handler is left and its locals are gone. In generateInitialExplanation
\* (lines 412-434) a generation that returned, with a result or with the
\* 409 object, fulfils its promise and one that threw rejects it; `finally`
\* starts the timer that deletes the key 5 seconds later, and the outer
\* catch deletes the key at once for anything thrown, by the generation or
\* by the messages query before there was one.
Finish(c) ==
    /\ cyc[c].pc = "done"
    /\ cyc' = [cyc EXCEPT ![c] = IdleCycle]
    /\ LET generated == cyc[c].handler = "initial" /\ promise[c] = "pending"
           threw == /\ cyc[c].handler = "initial"
                    /\ cyc[c].awaits = "none"
                    /\ cyc[c].result.status = 500
       IN /\ promise' = IF ~generated THEN promise
                        ELSE [promise EXCEPT ![c] = IF threw THEN "rejected" ELSE "fulfilled"]
          /\ timers' = IF generated THEN timers + 1 ELSE timers
          /\ generating' = IF threw THEN NoGeneration ELSE generating
    /\ UNCHANGED <<rowExists, row, cached, cache, sink, runs, accepted, row0, comm, bc, reply,
                   busy>>

\* The timer of a finished generation fires: the key is deleted, whichever
\* promise is stored under it.
CleanUp ==
    /\ timers > 0
    /\ timers' = timers - 1
    /\ generating' = NoGeneration
    /\ UNCHANGED <<rowExists, row, cached, cache, cyc, sink, runs, accepted, row0, comm, bc,
                   reply, promise, busy>>

(***************************************************************************)
(* The dispatcher: AgentCommunication                                      *)
(***************************************************************************)
\* The variables of the request handlers. Their sends go through sendMessage
\* and are recorded in messageHistory as well; no handler reads the history,
\* and the specifications of the handlers leave the dispatcher as it was
\* constructed.
pipeline ==
    <<rowExists, row, cached, cache, cyc, sink, runs, accepted, row0, generating, promise,
      timers, isProcessing, receiving>>

\* registerAgent(agent): set, overwriting an agent of the same name.
registerAgent(agents) ==
    /\ \E agent \in agents : comm' = [comm EXCEPT !.agents = MapSet(@, agent)]
    /\ UNCHANGED <<pipeline, bc, reply>>

\* unregisterAgent(agentName). A Map iterator in flight goes on with the
\* entries it has not visited: deleting a visited entry moves it back one.
unregisterAgent(names) ==
    /\ \E agentName \in names :
        /\ Has(comm.agents, agentName)
        /\ comm' = [comm EXCEPT !.agents = MapDelete(@, agentName)]
        /\ bc' = IF bc.active /\ IndexOf(comm.agents, agentName) <= bc.pos
                 THEN [bc EXCEPT !.pos = @ - 1] ELSE bc
    /\ UNCHANGED <<pipeline, reply>>

\* A call of sendMessage (at most `limit` messages are recorded in a
\* behaviour).
sendMessage(limit, froms, tos, types, contents, outcomes) ==
    /\ Len(comm.messageHistory) < limit
    /\ \E from \in froms, to \in tos, type \in types, content \in contents, o \in outcomes :
        LET message == Message(from, to, type)
            s == Send(comm, message, content, o)
        IN /\ comm' = s.comm
           /\ reply' = [NoReply EXCEPT !.op = "sendMessage", !.message = message,
                                       !.content = content,
                                       !.recipient = Get(comm.agents, to),
                                       !.outcome = o, !.response = s.response,
                                       !.threw = s.threw]
    /\ UNCHANGED <<pipeline, bc>>

\* getMessageHistory(limit = 100): slice(-limit) of the history.
getMessageHistory(limit) ==
    LET n == Len(comm.messageHistory)
    IN IF limit >= n THEN comm.messageHistory
       ELSE SubSeq(comm.messageHistory, n - limit + 1, n)

\* clearHistory().
clearHistory ==
    /\ comm.messageHistory # <<>>
    /\ comm' = [comm EXCEPT !.messageHistory = <<>>]
    /\ UNCHANGED <<pipeline, bc, reply>>

\* broadcast(from, content, type = 'notification') is called.
BroadcastCall(froms, contents) ==
    /\ ~bc.active
    /\ \E from \in froms, content \in contents :
        bc' = [NoBroadcast EXCEPT !.active = TRUE, !.from = from, !.content = content]
    /\ UNCHANGED <<pipeline, comm, reply>>

\* The responses Map after responses.set(agentName, response).
ResponsesSet(responses, agentName, response) ==
    {e \in responses : e.name # agentName} \cup {[name |-> agentName, response |-> response]}

\* The loop of broadcast stopping at the first delivery that fails.
BroadcastDeliverUntilFailure(limit, outcomes) ==
    /\ bc.active
    /\ bc.pos < Len(comm.agents)
    /\ Len(comm.messageHistory) < limit
    /\ LET agentName == comm.agents[bc.pos + 1].name
       IN IF agentName = bc.from
          THEN /\ bc' = [bc EXCEPT !.pos = @ + 1]
               /\ UNCHANGED <<comm, reply>>
          ELSE \E o \in outcomes :
                LET s == Send(comm, Message(bc.from, agentName, "notification"),
                              bc.content, o)
                IN /\ comm' = s.comm
                   /\ IF s.response.success
                      THEN /\ bc' = [bc EXCEPT !.pos = @ + 1,
                                        !.responses = ResponsesSet(@, agentName, s.response)]
                           /\ reply' = reply
                      ELSE /\ bc' = NoBroadcast
                           /\ reply' = [NoReply EXCEPT !.op = "broadcast",
                                           !.message = Message(bc.from, "none", "notification"),
                                           !.content = bc.content,
                                           !.responses = bc.responses]
    /\ UNCHANGED pipeline

\* One pass of `for (const [agentName, agent] of this.agents)`: the sender
\* is skipped, any other agent is sent the message and its response set. A
\* raising sendMessage would end the call with that error.
BroadcastDeliver(limit, outcomes) ==
    /\ bc.active
    /\ bc.pos < Len(comm.agents)
    /\ Len(comm.messageHistory) < limit
    /\ LET agentName == comm.agents[bc.pos + 1].name
       IN IF agentName = bc.from
          THEN /\ bc' = [bc EXCEPT !.pos = @ + 1]
               /\ UNCHANGED <<comm, reply>>
          ELSE \E o \in outcomes :
                LET s == Send(comm, Message(bc.from, agentName, "notification"),
                              bc.content, o)
                IN /\ comm' = s.comm
                   /\ IF s.threw
                      THEN /\ bc' = NoBroadcast
                           /\ reply' = [NoReply EXCEPT !.op = "broadcast", !.threw = TRUE,
                                           !.message = Message(bc.from, "none", "notification"),
                                           !.content = bc.content]
                      ELSE /\ bc' = [bc EXCEPT !.pos = @ + 1,
                                        !.responses = ResponsesSet(@, agentName, s.response)]
                           /\ reply' = reply
    /\ UNCHANGED pipeline

\* The iterator is done: broadcast returns the responses Map.
BroadcastReturn ==
    /\ bc.active
    /\ bc.pos >= Len(comm.agents)
    /\ bc' = NoBroadcast
    /\ reply' = [NoReply EXCEPT !.op = "broadcast",
                                !.message = Message(bc.from, "none", "notification"),
                                !.content = bc.content, !.responses = bc.responses]
    /\ UNCHANGED <<pipeline, comm>>

\* BaseAgent.receiveMessage up to its await of processMessage: the flag is
\* set (at most `limit` calls of one agent overlap in a behaviour).
ReceiveStart(names, limit) ==
    /\ \E n \in names :
        /\ Has(comm.agents, n)
        /\ receiving[n] < limit
        /\ isProcessing' = [isProcessing EXCEPT ![n] = TRUE]
        /\ receiving' = [receiving EXCEPT ![n] = @ + 1]
    /\ UNCHANGED <<rowExists, row, cached, cache, cyc, sink, runs, accepted, row0, comm, bc,
                   reply, generating, promise, timers>>

\* processMessage has answered or thrown: the flag is cleared on either
\* path and the call returns.
ReceiveReturn(names) ==
    /\ \E n \in names :
        /\ receiving[n] > 0
        /\ isProcessing' = [isProcessing EXCEPT ![n] = FALSE]
        /\ receiving' = [receiving EXCEPT ![n] = @ - 1]
    /\ UNCHANGED <<rowExists, row, cached, cache, cyc, sink, runs, accepted, row0, comm, bc,
                   reply, generating, promise, timers>>

\* BaseAgent.getStatus (messageQueue, which no agent of the pipeline fills,
\* left out).
getStatus(n) == [name |-> n, isProcessing |-> isProcessing[n]]

(***************************************************************************)
(* Inputs and specifications                                               *)
(***************************************************************************)
\* Conversation analyses: the flags, with a few newPreferences objects (a
\* complete one with nulls, one that leaves the wants_* keys out, as the
\* analyzer's fallback does, and an empty one).
NewPreferenceShapes ==
    {[explanation_style |-> Null, wants_examples |-> Null, wants_analogies |-> Null,
      pace |-> "slow"],
     [explanation_style |-> "concise", wants_examples |-> Undefined,
      wants_analogies |-> Undefined, pace |-> Undefined],
     [explanation_style |-> Null, wants_examples |-> Null, wants_analogies |-> Null,
      pace |-> Null]}

ConversationAnalyses ==
    [isStuck : {FALSE}, hasNewPreference : BOOLEAN, needsAdjustment : BOOLEAN,
     newPreferences : NewPreferenceShapes]

\* Updates a preference analysis may propose.
ProposedUpdates ==
    {NoUpdates,
     [NoUpdates EXCEPT !.pace = "slow"],
     [NoUpdates EXCEPT !.pace = "fast", !.removePreferences = {"pace"}],
     [NoUpdates EXCEPT !.formatPreference = "video", !.removePreferences = {"formatPreference"}],
     [NoUpdates EXCEPT !.removePreferences = {"formatPreference"}],
     [NoUpdates EXCEPT !.explanation_style = "detailed", !.wants_analogies = "false"]}

PreferenceAnalyses ==
    {Analysis(pf, ch, TRUE, u) :
        pf \in Formats \cup {Null}, ch \in BOOLEAN, u \in ProposedUpdates}
    \cup {Analysis(pf, FALSE, FALSE, NoUpdates) : pf \in Formats \cup {Null}}

\* The detector's view of "I prefer videos".
PreferVideos == [like |-> TRUE, hate |-> FALSE, kw |-> {"video"}, legacy |-> {}]

\* A preference analysis that changes nothing.
Unchanged == Analysis(Null, FALSE, TRUE, NoUpdates)

\* A conversation analysis asking for a slower pace.
SlowerPace ==
    [isStuck |-> FALSE, hasNewPreference |-> TRUE, needsAdjustment |-> TRUE,
     newPreferences |-> [explanation_style |-> Null, wants_examples |-> Null,
                         wants_analogies |-> Null, pace |-> "slow"]]

\* The steps of one handler up to the preference analysis.
EntryStep(c, limit, convs) ==
    \/ Request(c, limit)
    \/ InitReadFails(c)
    \/ InitSelect(c)
    \/ InitInsert(c)
    \/ LoadContext(c)
    \/ AnalyzeConversation(c, convs)
    \/ Adjust(c)
    \/ Prompt(c)

\* analyze_preferences.
PreferenceStep(c, msgs, prefs) ==
    \/ DetectGet(c)
    \/ DetectLLM(c, msgs, prefs)
    \/ UpdateDb(c)
    \/ UpdateDbFails(c)
    \/ UpdateDone(c)

\* Routing, the generate / evaluate loop and the save.
TeachStep(c, judges, texts) ==
    \/ Route(c)
    \/ Teach(c)
    \/ Evaluate(c, judges, texts)
    \/ AfterLoop(c)
    \/ DoubleCheck(c)
    \/ Save(c)
    \/ Finish(c)

\* What the judge may answer: scores inside and outside 0..100, with
\* either flag, no score at all, or nothing usable.
JudgeScores == {0 - 5, 0, 69, 70, 120}

Judges ==
    {Judgement(TRUE, score, passed) : score \in JudgeScores, passed \in BOOLEAN}
    \cup {Judgement(FALSE, 0, FALSE), JudgeFailed}

\* The judge's answers in the loop: a score just under the threshold with
\* the flag set, the threshold with the flag unset, a score over 100, no
\* score, and nothing usable.
LoopJudges ==
    {Judgement(TRUE, 69, TRUE), Judgement(TRUE, 70, FALSE), Judgement(TRUE, 120, TRUE),
     Judgement(FALSE, 0, FALSE), JudgeFailed}

\* A candidate text of 50 to 500 words with none of the rewarded elements.
LoopTexts ==
    {[isString |-> TRUE, words |-> "good", relevance |-> 0, example |-> FALSE,
      forInstance |-> FALSE, bullets |-> FALSE]}

\* One request at a time, through the whole handler.
Next ==
    \/ EntryStep("c1", MaxRuns, {SlowerPace})
    \/ PreferenceStep("c1", {NoMessage, PreferVideos}, {Unchanged})
    \/ TeachStep("c1", LoopJudges, LoopTexts)
    \/ CleanUp

Spec == Init /\ [][Next]_vars

\* The handler with the video job of its worker in view. The event loop
\* runs every continuation of the handler that is ready, which is weak
\* fairness of the handler's steps; whether and when the job ends is Sora's
\* doing, and nothing is assumed of it.
NextLive ==
    \/ Next
    \/ StartPolling("c1")
    \/ PollCompletes("c1")

SpecLive == Init /\ [][NextLive]_vars /\ WF_vars(Next \/ StartPolling("c1"))

\* The server of the orchestrator before it has served a request: the
\* user has no preferences row yet.
InitOrchestrator == Init /\ ~rowExists

\* Two requests for the first explanation of one lesson by one user, without
\* a message, in a server that has served none; the judge accepts what it
\* is shown.
NextInitial ==
    \/ \E c \in Cycles :
          \/ Arrive(c, Cardinality(Cycles), {"initial"}, {FALSE})
          \/ Join(c)
          \/ LoadContext(c)
          \/ InitReadFails(c)
          \/ InitSelect(c)
          \/ InitInsert(c)
          \/ Prompt(c)
          \/ Teach(c)
          \/ Evaluate(c, {Judgement(TRUE, 70, TRUE)}, LoopTexts)
          \/ AfterLoop(c)
          \/ DoubleCheck(c)
          \/ Save(c)
          \/ Finish(c)
    \/ CleanUp

SpecInitial == InitOrchestrator /\ [][NextInitial]_vars

\* Deltas of the two-request specification.
PrefsAnalyses ==
    {Unchanged,
     Analysis("flashcards", TRUE, TRUE,
              [NoUpdates EXCEPT !.formatPreference = "flashcards", !.pace = "fast"]),
     Analysis("video", TRUE, TRUE,
              [NoUpdates EXCEPT !.formatPreference = "video", !.pace = "slow"])}

\* One request of the user in flight in each handler instance, up to the
\* routing.
NextPrefs ==
    \E c \in Cycles :
        \/ EntryStep(c, Cardinality(Cycles), {SlowerPace})
        \/ PreferenceStep(c, {NoMessage}, PrefsAnalyses)

SpecPrefs == Init /\ [][NextPrefs]_vars

\* The format detection and the update over every message shape and
\* analysis, one request at a time.
NextDetect ==
    \/ EntryStep("c1", MaxRuns, ConversationAnalyses)
    \/ PreferenceStep("c1", MessageShapes, PreferenceAnalyses)

SpecDetect == Init /\ [][NextDetect]_vars

(***************************************************************************)
(* The dispatcher on its own                                               *)
(***************************************************************************)
\* Messages one behaviour of a dispatcher specification records.
MaxMessages == 2

\* Agents a caller registers: two workers of the pipeline and, under one
\* name, an agent without processMessage and one whose receiveMessage raises.
DispatchAgents ==
    {Agent("TeacherModel", "TeacherModel"), Agent("ResponseEvaluator", "ResponseEvaluator"),
     Agent("Stub", "BaseAgent"), Agent("Stub", "Raising")}

DispatchNames == {a.name : a \in DispatchAgents}

\* A teach request about a lesson.
TeachContent == Content("teach", TRUE, ObjectBody)

\* The notification TeacherModel knows.
PromptUpdated == Content("system_prompt_updated", TRUE, ObjectBody)

\* The model beneath a worker answers, or throws.
DispatchOutcomes == {Outcome("ok", JudgeFailed), Outcome("throws", JudgeFailed)}

\* A dispatcher just constructed, in a server that has served no request.
InitDispatch ==
    /\ InitPipeline
    /\ ~rowExists
    /\ comm = NewCommunication
    /\ bc = NoBroadcast
    /\ reply = NoReply

\* registerAgent, unregisterAgent and sendMessage, called in any order.
NextSend ==
    \/ registerAgent(DispatchAgents)
    \/ unregisterAgent(DispatchNames)
    \/ sendMessage(MaxMessages, {"ChatController"}, DispatchNames, {"request"},
                   {TeachContent}, DispatchOutcomes)

SpecSend == InitDispatch /\ [][NextSend]_vars

\* A broadcast, interleaved at its awaits with calls that change the
\* registry.
NextBroadcast ==
    \/ registerAgent(DispatchAgents)
    \/ unregisterAgent(DispatchNames)
    \/ BroadcastCall({"ChatController", "TeacherModel"}, {PromptUpdated})
    \/ BroadcastDeliver(MaxMessages, DispatchOutcomes)
    \/ BroadcastReturn

SpecBroadcast == InitDispatch /\ [][NextBroadcast]_vars

\* Messages one behaviour of the history specification records.
MaxSends == 1001

\* One registered worker and a caller that goes on sending to it (and to a
\* name that is not registered), clearing the history now and then.
NextHistory ==
    \/ registerAgent({Agent("TeacherModel", "TeacherModel")})
    \/ sendMessage(MaxSends, {"ChatController"}, {"TeacherModel", "Stub"}, {"request"},
                   {TeachContent}, {Outcome("ok", JudgeFailed)})
    \/ clearHistory

SpecHistory == InitDispatch /\ [][NextHistory]_vars

\* Candidate texts of the worker specification.
WorkerTexts ==
    {t \in Texts : t.relevance # 10 /\ t.forInstance = t.example /\ t.bullets = t.example}

\* The requests of the handlers: teach (with the lesson of the request, or
\* with lessonContext: null) and evaluate_response (with a text, or with
\* the object generateInitialExplanation passes for a video or flashcards).
WorkerContents ==
    {Content("teach", lesson, ObjectBody) : lesson \in BOOLEAN}
    \cup {Content("evaluate_response", TRUE, body) : body \in WorkerTexts \cup {ObjectBody}}

\* Rubrics a judge may write: the one the prompt shows, one whose weights
\* add up to 1.2, and an empty object.
JudgeRubrics == {getDefaultRubric, <<40, 30, 20, 20, 10>>, <<>>}

WorkerOutcomes ==
    {Outcome(gen, JudgeFailed) : gen \in Generations} \cup {Outcome("ok", judge) : judge \in Judges}
    \cup {Outcome("ok", WithRubric(Judgement(TRUE, 70, TRUE), r)) : r \in JudgeRubrics}

\* The handlers' sends to the content workers and the evaluator.
NextWorkers ==
    sendMessage(MaxMessages, {"ChatController"},
                {"TeacherModel", "VideoGenerator", "FlashcardGenerator", "ResponseEvaluator"},
                {"request"}, WorkerContents, WorkerOutcomes)

SpecWorkers == InitOrchestrator /\ [][NextWorkers]_vars

\* receiveMessage calls of one agent that overlap in a behaviour.
MaxOverlap == 2

\* The handlers of concurrent requests sending to the orchestrator's
\* workers: each delivery awaits the worker's model.
NextBusy ==
    \/ ReceiveStart(WorkerClasses, MaxOverlap)
    \/ ReceiveReturn(WorkerClasses)

SpecBusy == InitOrchestrator /\ [][NextBusy]_vars

(***************************************************************************)
(* The generate / evaluate loop: C1 - C4                                   *)
(***************************************************************************)
HasPassed(log) == \E n \in DOMAIN log : log[n] = "passed"

\* The first attempt whose evaluation was accepted.
FirstPassed(log) ==
    CHOOSE n \in DOMAIN log : log[n] = "passed" /\ \A m \in 1..(n - 1) : log[m] # "passed"

ExpectedAttempts(log) == IF HasPassed(log) THEN FirstPassed(log) ELSE maxAttempts

\* The loop of the handler has ended.
LoopOver(c) ==
    \/ cyc[c].pc \in {"after_loop", "double_check", "save"}
    \/ cyc[c].pc = "done" /\ cyc[c].log # <<>>

\* C1: a cycle never starts more than maxAttempts attempts; once its loop
\* has ended, the number of attempts it started is the first attempt whose
\* evaluation passed, or maxAttempts when none passed, and the attemptsUsed
\* of the chat handler's result is that number.
C1_AttemptsUsed ==
    \A c \in Cycles :
        /\ cyc[c].attempts <= maxAttempts
        /\ LoopOver(c) =>
              /\ cyc[c].attempts = Len(cyc[c].log)
              /\ cyc[c].attempts = ExpectedAttempts(cyc[c].log)
        /\ (cyc[c].result.kind = "result" /\ cyc[c].handler = "chat") =>
              cyc[c].result.attemptsUsed = ExpectedAttempts(cyc[c].log)

\* A chat cycle answered after a rejected first and an accepted second attempt.
C1_Witness ==
    /\ cyc["c1"].pc = "done"
    /\ cyc["c1"].handler = "chat"
    /\ cyc["c1"].result.kind = "result"
    /\ cyc["c1"].log = <<"failed", "passed">>
    /\ cyc["c1"].result.attemptsUsed = 2

\* C2: a request whose preference read succeeded is never answered with an
\* error because the content worker failed, not even when it failed on
\* every attempt.
C2_NoWorkerError ==
    \A c \in Cycles :
        (cyc[c].pc = "done" /\ cyc[c].result.kind = "error") => cyc[c].result.cause # "worker"

\* C3: when a result is returned, accepted or not, the sink holds the
\* returned candidate with its evaluation.
C3_SavedBeforeReturn ==
    \A c \in Cycles :
        (cyc[c].pc = "done" /\ cyc[c].result.kind = "result") =>
            \E i \in DOMAIN sink :
                /\ sink[i].cycle = c
                /\ sink[i].candidate = cyc[c].result.candidate
                /\ sink[i].evaluation.present
                /\ sink[i].evaluation.totalScore = cyc[c].result.score

\* C4: a failing save never turns the answer of a cycle into an error.
C4_SinkFailureKeepsResult ==
    \A c \in Cycles : cyc[c].pc = "done" => cyc[c].result.cause # "sink"

(***************************************************************************)
(* Preference detection and update: C5 - C10                               *)
(***************************************************************************)
\* C5: the format a preference analysis returns is none of the formats its
\* message rejects.
C5_NeverRejectedFormat ==
    \A c \in Cycles :
        (cyc[c].detected /\ cyc[c].formatAnalysis.present) =>
            cyc[c].formatAnalysis.preferredFormat \notin Rejected(cyc[c].msg)

\* C6: of two updates submitted at the same stored change count, at most
\* one is applied.
C6_ExactlyOneAccepted ==
    \A c, d \in Cycles :
        (c # d /\ cyc[c].applied = "ok" /\ cyc[d].applied = "ok") =>
            cyc[c].countAtSubmit # cyc[d].countAtSubmit

\* No request is between two statements of its preference handling.
NoWritePending == \A c \in Cycles : cyc[c].pc \in {"idle", "done", "route", "teach"}

\* C7: the stored change count has risen by one for each preference delta
\* the store accepted.
C7_CountMatchesAccepted ==
    (rowExists /\ NoWritePending) =>
        row.preference_changes_count = row0.preference_changes_count + accepted

\* A field of the preferences a load of the row gives.
ReadField(r, f) ==
    IF f = "explanation_style" THEN PrefsOfRow(r).explanationStyle ELSE PrefsOfRow(r)[f]

DefaultField(f) ==
    IF f = "explanation_style" THEN DefaultPrefs.explanationStyle ELSE DefaultPrefs[f]

\* The update of request c has just been written.
Written(c) == cyc[c].pc = "update_done" /\ cyc[c].applied = "ok"

\* C8: a field an update both sets and removes is stored with the value set.
C8_SetWinsOverRemoval ==
    \A c \in Cycles, f \in UpdateFields :
        (/\ Written(c)
         /\ IsSet(cyc[c].det.updates[f])
         /\ f \in cyc[c].det.updates.removePreferences) =>
            ReadField(row, f) = cyc[c].det.updates[f]

\* C9: a field an update removes and does not set reads as its default
\* from the store afterwards.
C9_RemovalResetsToDefault ==
    \A c \in Cycles, f \in UpdateFields :
        (/\ Written(c)
         /\ ~IsSet(cyc[c].det.updates[f])
         /\ f \in cyc[c].det.updates.removePreferences) =>
            ReadField(row, f) = DefaultField(f)

\* A direct column update, applied to a preferences object.
DirectOn(p, u) ==
    [p EXCEPT
        !.explanationStyle = IF u.explanation_style # Absent
                             THEN SqlValue(u.explanation_style) ELSE @,
        !.wants_examples = IF u.wants_examples # Absent THEN SqlValue(u.wants_examples) ELSE @,
        !.wants_analogies = IF u.wants_analogies # Absent
                            THEN SqlValue(u.wants_analogies) ELSE @,
        !.pace = IF u.pace # Absent THEN SqlValue(u.pace) ELSE @]

\* The deltas the store has accepted from the requests: the direct column
\* update of a request and the update of its preference analysis.
AcceptedDeltas ==
    {[cycle |-> c, kind |-> "direct", direct |-> AdjustUpdates(cyc[c].analysis),
      updates |-> NoUpdates] : c \in {x \in Cycles : cyc[x].adjusted}}
    \cup
    {[cycle |-> c, kind |-> "full", direct |-> DirectUpdates(NoNewPreferences),
      updates |-> cyc[c].det.updates] : c \in {x \in Cycles : cyc[x].applied = "ok"}}

ApplyDelta(p, d) ==
    IF d.kind = "direct" THEN DirectOn(p, d.direct) ELSE NewPrefs(d.updates, p)

\* The preferences that applying deltas of D one after another, each at
\* most once, can leave, starting from p.
RECURSIVE SerialOutcomes(_, _)
SerialOutcomes(p, D) ==
    {p} \cup UNION {SerialOutcomes(ApplyDelta(p, d), D \ {d}) : d \in D}

\* The same, with at least one delta applied.
AppliedOutcomes(p, D) == UNION {SerialOutcomes(ApplyDelta(p, d), D \ {d}) : d \in D}

\* The snapshots the requests read: the stored one and those their
\* preference analyses were given.
SnapshotsRead ==
    {PrefsOfRow(row0)} \cup {cyc[c].currentPrefs : c \in {x \in Cycles : cyc[x].applied = "ok"}}

\* C10: once the requests have written their deltas, the stored preferences
\* are those of applying whole deltas, one or several in some order, to a
\* snapshot the requests read: an update may be lost, fields of two
\* updates are never mixed.
C10_SerialEquivalent ==
    (rowExists /\ NoWritePending /\ AcceptedDeltas # {}) =>
        PrefsOfRow(row) \in UNION {AppliedOutcomes(p, AcceptedDeltas) : p \in SnapshotsRead}

\* Both requests updated the same snapshot concurrently, with different
\* deltas, and both updates were written.
C10_Witness ==
    /\ NoWritePending
    /\ cyc["c1"].applied = "ok" /\ cyc["c2"].applied = "ok"
    /\ cyc["c1"].countAtSubmit = cyc["c2"].countAtSubmit
    /\ cyc["c1"].currentPrefs = cyc["c2"].currentPrefs
    /\ cyc["c1"].newPrefs # cyc["c2"].newPrefs

\* The step is one of request c's.
StepOf(c) == cyc'[c] # cyc[c]

\* C11: a preference delta is written whole or not at all. The step of a
\* request that ends its UPDATE of the row leaves the row with every column
\* of the delta written when the update is applied, and as it was when the
\* update failed; the same for the controller's direct column update; and
\* no step in which a request fails changes the row.
C11_AllOrNothing ==
    [][\A c \in Cycles :
          /\ (StepOf(c) /\ cyc[c].pc = "update_db" /\ rowExists) =>
                \/ cyc'[c].applied = "ok" /\ row' = RowAfterUpdate(row, cyc[c].newPrefs)
                \/ cyc'[c].applied # "ok" /\ row' = row
          /\ (StepOf(c) /\ cyc[c].pc = "adjust" /\ rowExists) =>
                \/ /\ cyc'[c].adjusted
                   /\ row' = RowAfterDirectUpdate(row, AdjustUpdates(cyc[c].analysis))
                \/ ~cyc'[c].adjusted /\ row' = row
          /\ (StepOf(c) /\ cyc'[c].result.kind = "error") => row' = row]_vars

\* The UPDATE of one request failed while the other request's was applied.
C11_Witness ==
    /\ cyc["c1"].applied = "failed"
    /\ cyc["c1"].newPrefs # cyc["c1"].currentPrefs
    /\ cyc["c2"].applied = "ok"
    /\ row = RowAfterUpdate(row0, cyc["c2"].newPrefs)

(***************************************************************************)
(* The dispatcher: C12 - C15                                               *)
(***************************************************************************)
\* C12: sendMessage to a name that is not registered returns success: false
\* with the recipient-not-found error, and does not throw.
C12_UnregisteredRecipient ==
    (reply.op = "sendMessage" /\ reply.recipient = NoAgent) =>
        (reply.response = Failure("not_found") /\ ~reply.threw)

\* A send to a name that is not registered, in a registry that holds others.
C12_Witness ==
    /\ reply.op = "sendMessage"
    /\ reply.recipient = NoAgent
    /\ reply.message.to = "ResponseEvaluator"
    /\ Has(comm.agents, "TeacherModel")
    /\ ~Has(comm.agents, "ResponseEvaluator")

\* C13: no call of sendMessage or broadcast ends in a thrown error; a
\* recipient whose receiveMessage raises, or whose processMessage throws, is
\* answered for with success: false and an error.
C13_WorkerFaultContained ==
    /\ ~reply.threw
    /\ (reply.op = "sendMessage" /\ reply.recipient.class = "Raising") =>
            reply.response = Failure("delivery")
    /\ (reply.op = "sendMessage" /\ reply.recipient.class = "BaseAgent") =>
            reply.response = Failure("thrown")

\* A send to an agent whose receiveMessage raised.
C13_Witness ==
    /\ reply.op = "sendMessage"
    /\ reply.recipient = Agent("Stub", "Raising")
    /\ ~reply.response.success

\* C14: the history never holds more than 1000 messages (the documented
\* default cap), however many are sent.
C14_HistoryBounded == Len(comm.messageHistory) <= 1000

\* The entries of a responses Map under one name.
Entries(responses, name) == {e \in responses : e.name = name}

\* C15: while a broadcast runs, every agent its iterator has passed, other
\* than the sender, has exactly one entry in the responses Map and the
\* sender has none, whatever the responses were; the call ends only when
\* the iterator has passed every registered agent, and returns that Map.
C15_BroadcastDelivers ==
    /\ [](bc.active =>
            /\ bc.pos <= Len(comm.agents)
            /\ \A i \in 1..bc.pos :
                  comm.agents[i].name # bc.from =>
                      Cardinality(Entries(bc.responses, comm.agents[i].name)) = 1
            /\ \A e \in bc.responses :
                  e.name # bc.from /\ Cardinality(Entries(bc.responses, e.name)) = 1)
    /\ [][(bc.active /\ ~bc'.active) =>
            /\ bc.pos >= Len(comm.agents)
            /\ reply'.op = "broadcast"
            /\ ~reply'.threw
            /\ reply'.responses = bc.responses]_vars

\* A broadcast returned the failure of one agent beside the success of the
\* agent registered after it.
C15_Witness ==
    /\ reply.op = "broadcast"
    /\ reply.message.from = "ChatController"
    /\ comm.agents = <<Agent("Stub", "Raising"), Agent("TeacherModel", "TeacherModel")>>
    /\ reply.responses = {[name |-> "Stub", response |-> Failure("delivery")],
                          [name |-> "TeacherModel", response |-> Acknowledged]}

(***************************************************************************)
(* The workers: C16, C17                                                   *)
(***************************************************************************)
\* A request for `action` has been answered by a worker of class `class`.
Answered(class, action) ==
    /\ reply.op = "sendMessage"
    /\ reply.recipient.class = class
    /\ reply.message.type = "request"
    /\ reply.content.action = action

\* C16: a content worker whose generator throws, or answers with text that
\* is not the format asked for, still answers a teach request about a
\* lesson with a successful response that carries a candidate.
C16_WorkersDegrade ==
    \A class \in {"TeacherModel", "VideoGenerator", "FlashcardGenerator"} :
        (/\ Answered(class, "teach")
         /\ reply.content.lesson
         /\ reply.outcome.gen \in {"throws", "malformed"}) =>
            (reply.response.success /\ reply.response.data.kind = "candidate")

\* C17: when the judge fails, the evaluator still answers an
\* evaluate_response request with a successful response that carries an
\* evaluation, whether the candidate is a text or an object.
C17_EvaluateFallsBack ==
    (Answered("ResponseEvaluator", "evaluate_response") /\ reply.outcome.judge.failed) =>
        (reply.response.success /\ reply.response.data.kind = "evaluation")

(***************************************************************************)
(* The evaluations the controller keeps: C19, C20                          *)
(***************************************************************************)
\* The evaluations the handlers hold or have saved.
KeptEvaluations ==
    {cyc[c].evaluation : c \in {x \in Cycles : cyc[x].evaluation.present}}
    \cup {sink[i].evaluation : i \in {j \in DOMAIN sink : sink[j].evaluation.present}}

C20_ScoreInRange ==
    \A e \in KeptEvaluations : 0 <= e.totalScore /\ e.totalScore <= 100

(***************************************************************************)
(* Timeouts: C18                                                           *)
(***************************************************************************)
\* C18: a cycle that has reached its generate / evaluate loop eventually
\* returns, whatever its workers do.
C18_CycleReturns == (cyc["c1"].pc = "teach") ~> (cyc["c1"].pc = "done")

(***************************************************************************)
(* The rubric: C21                                                         *)
(***************************************************************************)
RECURSIVE SumWeights(_)
SumWeights(rubric) ==
    IF rubric = <<>> THEN 0 ELSE Head(rubric) + SumWeights(Tail(rubric))

\* C21: the weights of the rubric of every evaluation the evaluator returns
\* to the controller add up to 100 (hundredths).
C21_WeightsSumTo100 ==
    (/\ Answered("ResponseEvaluator", "evaluate_response")
     /\ reply.response.success) =>
        SumWeights(reply.response.data.rubric) = 100

(***************************************************************************)
(* Init: C22                                                               *)
(***************************************************************************)
\* No request for a detection, a candidate or an evaluation has been sent
\* for the cycle (in the state after the step).
NothingDispatched(c) ==
    /\ ~cyc[c].detected
    /\ ~cyc[c].formatAnalysis.present
    /\ cyc[c].attempts = 0
    /\ cyc[c].log = <<>>
    /\ ~cyc[c].evaluation.present

\* C22: a step in which the preference read of Init fails ends the cycle
\* with a store error, no detection, generation or evaluation having been
\* requested.
C22_StoreFailureAborts ==
    [][\A c \in Cycles :
          (InitReadFails(c) \/ (InitInsert(c) /\ rowExists)) =>
              (/\ cyc'[c].pc = "done"
               /\ cyc'[c].result = ErrorResult(500, "store")
               /\ NothingDispatched(c)')]_vars

\* A chat request of a user with stored preferences ended with a store
\* error before it had read them.
C22_Witness ==
    /\ rowExists /\ row0 # DefaultRow
    /\ cyc["c1"].handler = "chat"
    /\ cyc["c1"].pc = "done"
    /\ cyc["c1"].result = ErrorResult(500, "store")
    /\ cyc["c1"].userPreferences = DefaultRow

(***************************************************************************)
(* Retries: C23, C24                                                       *)
(***************************************************************************)
\* The step sends the teach request of a new attempt of cycle c.
TeachSent(c) == cyc[c].pc = "teach" /\ cyc'[c].attempts = cyc[c].attempts + 1

\* C23: every teach request of a cycle goes to the worker the routing chose
\* for it, a retry to the worker of the attempt before.
C23_SameWorker ==
    [][\A c \in Cycles :
          TeachSent(c) =>
              (/\ cyc'[c].sent.to = cyc[c].targetModel
               /\ cyc'[c].targetModel = cyc[c].targetModel
               /\ (cyc[c].attempts > 0 => cyc'[c].sent.to = cyc[c].sent.to))]_vars

\* The third attempt of a cycle routed to the video worker was sent to it.
C23_Witness ==
    /\ cyc["c1"].attempts = 3
    /\ cyc["c1"].targetModel = "VideoGenerator"
    /\ cyc["c1"].sent.to = "VideoGenerator"

\* C24: when attempt n was evaluated and the loop goes on, the teach
\* request of attempt n + 1 carries the evaluation of attempt n.
C24_FeedbackCarried ==
    [][\A c \in Cycles :
          (/\ TeachSent(c)
           /\ cyc[c].evaluation.present
           /\ cyc[c].evaluation.attempt = cyc[c].attempts) =>
              cyc'[c].sent.feedback = cyc[c].evaluation]_vars

\* The second attempt was sent with the failed evaluation of the first.
C24_Witness ==
    /\ cyc["c1"].attempts = 2
    /\ cyc["c1"].pc = "evaluate"
    /\ cyc["c1"].sent.feedback.present
    /\ cyc["c1"].sent.feedback.attempt = 1
    /\ ~Accepted(cyc["c1"].sent.feedback)

(***************************************************************************)
(* The first explanation of a lesson: C25, C26                             *)
(***************************************************************************)
\* Handlers whose generation has started and not finished.
Generating == {c \in Cycles : promise[c] = "pending"}

\* C25: at most one generation of the first explanation is in flight.
C25_OneGeneration == Cardinality(Generating) <= 1

\* C26: at most one first explanation is ever inserted into chat_messages.
C26_OneMessage == Len(sink) <= 1

(***************************************************************************)
(* The frame of an update: C27                                             *)
(***************************************************************************)
\* The update names field f: it sets it or removes it.
Named(updates, f) ==
    \/ IsSet(updates[f])
    \/ f \in updates.removePreferences
    \/ f = "formatPreference" /\ "output_format" \in updates.removePreferences

\* C27: the step that writes the update of a request leaves every field
\* the update does not name as the store held it just before.
C27_OnlyNamedFieldsChange ==
    [][\A c \in Cycles :
          (StepOf(c) /\ cyc[c].pc = "update_db" /\ cyc'[c].applied = "ok") =>
              \A f \in UpdateFields :
                  ~Named(cyc[c].det.updates, f) => ReadField(row', f) = ReadField(row, f)]_vars

(***************************************************************************)
(* The format of the response and the cache: C28, C29                      *)
(***************************************************************************)
\* What a fresh load from the store gives: the preferences of the row, or
\* the defaults of the row the load would insert.
FreshLoad == IF rowExists THEN PrefsOfRow(row) ELSE DefaultPrefs

\* C28: when the response of analyze_preferences reports
\* preferencesUpdated, its preferredFormat is the format the store holds
\* when the response is returned.
C28_FormatMatchesStore ==
    [][\A c \in Cycles :
          (/\ StepOf(c)
           /\ ~cyc[c].formatAnalysis.present
           /\ cyc'[c].formatAnalysis.present
           /\ cyc'[c].formatAnalysis.preferencesUpdated) =>
              cyc'[c].formatAnalysis.preferredFormat = FreshLoad'.formatPreference]_vars

\* C29: while no updateUserPreferences call is under way, a cached
\* snapshot is the one a fresh load from the store would give.
C29_CacheFresh ==
    (cached /\ \A c \in Cycles : cyc[c].pc \notin {"update_db", "update_done"}) =>
        cache = FreshLoad

(***************************************************************************)
(* The busy flag: C30                                                      *)
(***************************************************************************)
\* C30: an agent with a receiveMessage call that has started and not
\* returned reports isProcessing.
C30_BusyWhileReceiving ==
    \A n \in WorkerClasses : receiving[n] > 0 => getStatus(n).isProcessing

====
